---- MODULE Spec2Model ----
(***************************************************************************)
(* A model of pysatMadrigal's general loader,                              *)
(* pysatMadrigal/instruments/methods/general.py, function load().          *)
(*                                                                         *)
(* One call of load() is a run of the state machine: the arguments are     *)
(* chosen in Init, the contents of each file are chosen when the file is   *)
(* opened, and pc follows the blocks of the function body.  A raised       *)
(* exception ends the run in pc = "raised" with err set.                   *)
(*                                                                         *)
(* Column and variable names are strings; str.lower() is Lower.  A file    *)
(* name is the sequence of its parts, so that str.find() has a position    *)
(* to return.  A table row is the record of its six time fields; the       *)
(* values of the other columns are not represented.  A DataFrame is its    *)
(* set of column names and its index; a Dataset is its set of variable     *)
(* names and its dimensions.                                               *)
(*                                                                         *)
(* The other routines of the package are modelled further down, each with  *)
(* a specification of its own: the remote routines of general.py, and the  *)
(* routines that an Instrument calls (file format strings, the filter of   *)
(* a single date, the line-of-sight load, the file lists, the cleaning).   *)
(***************************************************************************)
EXTENDS Integers, Sequences, FiniteSets, TLC

VARIABLES
    fnames,           \* the file names: the argument, then the table files
    caller_coords,    \* the object the caller passed as xarray_coords
    xarray_coords,    \* load's local name xarray_coords
    load_file_types,  \* file names by file type
    meta,             \* pysat.Meta: lower-case name -> entry
    meta_attrs,       \* custom attributes set on meta
    labels,           \* column labels read from the first table file
    data,             \* the output
    coord_len,        \* number of coordinates other than time
    todo,             \* table files the loop has still to read
    file_data,        \* the table read from the file opened last
    columns,          \* ldata.columns of the table loaded last
    xdatasets,        \* the Datasets made from the groups of coordinates
    ldata,            \* the data of the file loaded last
    fdata,            \* per-file results
    log,              \* logger.warning calls, in order
    err,              \* the exception raised, if any
    pc,               \* position in load()
    request,          \* the call of a remote routine and its arguments
    start,            \* the local name start of the remote routines
    stop,             \* the local name stop of the remote routines
    exp_list,         \* experiments the loop has still to look at
    exp,              \* the experiment looked at last
    gflag,            \* what good_exp returned for it
    files,            \* the files get_remote_filenames has collected
    mad_files,        \* files the loop of download has still to get
    local_files,      \* the files that exist in data_path
    web_calls,        \* the calls made to madrigalWeb, in order
    web_err,          \* the exception a remote routine raised, if any
    web_pc,           \* position in the remote routines
    fmt,              \* the calls of madrigal_file_format_str for a code
    inst,             \* the Instrument that a custom function is applied to
    los,              \* a call of gnss.load_los
    lf                \* the calls of the list_files routines and their tags

load_vars == <<fnames, caller_coords, xarray_coords, load_file_types, meta,
               meta_attrs, labels, data, coord_len, todo, file_data, columns,
               xdatasets, ldata, fdata, log, err, pc>>

remote_vars == <<request, start, stop, exp_list, exp, gflag, files,
                 mad_files, local_files, web_calls, web_err, web_pc>>

method_vars == <<fmt, inst, los, lf>>

vars == <<load_vars, remote_vars, method_vars>>

\* the locals of the loop over the table files
file_vars == <<file_data, columns, xdatasets, ldata>>

----------------------------------------------------------------------------
(* Bounds of the model *)

MaxFiles == 2

MaxRows == 2

----------------------------------------------------------------------------
(* Generic helpers *)

Range(s) == {s[i] : i \in DOMAIN s}

Max(S) == CHOOSE m \in S : \A n \in S : n <= m

Min(S) == CHOOSE m \in S : \A n \in S : m <= n

SeqsUpTo(S, n) == UNION {[1..k -> S] : k \in 0..n}

RECURSIVE SumSeq(_)
SumSeq(s) == IF s = <<>> THEN 0 ELSE Head(s) + SumSeq(Tail(s))

Count(s, v) == Cardinality({i \in DOMAIN s : s[i] = v})

----------------------------------------------------------------------------
(* Names *)

LowerMap ==
    [YEAR |-> "year", MONTH |-> "month", DAY |-> "day", HOUR |-> "hour",
     MIN |-> "min", SEC |-> "sec", X |-> "x", A |-> "a", B |-> "b",
     C |-> "c", TEC |-> "tec"]

\* str.lower()
Lower(n) == IF n \in DOMAIN LowerMap THEN LowerMap[n] ELSE n

LowerSeq(s) == [i \in DOMAIN s |-> Lower(s[i])]

\* general.py line 674
time_keys == <<"year", "month", "day", "hour", "min", "sec">>

\* general.py line 23: the keys of file_types, in order
file_types == <<"hdf5", "netCDF4", "simple">>

----------------------------------------------------------------------------
(* Inputs *)

FileNames ==
    {<<"d", "hdf5">>, <<"d", "simple", "gz">>, <<"d", "netCDF4">>,
     <<"d", "txt">>}

NoCoords == [kind |-> "None", keys |-> <<>>, groups |-> <<>>]

ListCoords(ks) == [kind |-> "list", keys |-> ks, groups |-> <<>>]

DictCoords(gs) == [kind |-> "dict", keys |-> <<>>, groups |-> gs]

Group(k, v) == [key |-> k, vars |-> v]

\* The coordinate schemas a caller passes.
SchemaSet ==
    {NoCoords,
     ListCoords(<<"time">>),
     ListCoords(<<"time", "x">>),
     ListCoords(<<"zz">>),
     DictCoords(<<Group(<<"time", "x">>, <<"a", "b">>),
                  Group(<<"time">>, time_keys)>>),
     DictCoords(<<Group(<<"time", "x">>, <<"a">>),
                  Group(<<"time">>, <<"year">>)>>),
     DictCoords(<<Group(<<"x">>, <<"b">>),
                  Group(<<"time">>, time_keys)>>),
     DictCoords(<<Group(<<"zz">>, <<"a">>),
                  Group(<<"time">>, <<"year">>)>>),
     DictCoords(<<Group(<<"time", "x">>, <<"a", "zz">>)>>),
     DictCoords(<<Group(<<"time", "x">>, <<"zz">>),
                  Group(<<"zz">>, <<"a">>)>>),
     DictCoords(<<Group(<<"time", "X">>, <<"a">>)>>),
     DictCoords(<<Group(<<"time", "x">>, <<"A", "zz">>)>>),
     DictCoords(<<Group(<<"time", "x">>, <<"a", "B">>)>>)}

\* The column headers of the table files (the names of the HDF5 'Data
\* Parameters', or the first line of a simple file): those with the six
\* time columns, and those lacking some of them.
CompleteHeaders ==
    {time_keys \o <<"x", "a", "b">>,
     <<"YEAR", "MONTH", "DAY", "HOUR", "MIN", "SEC", "X", "A", "C">>}

IncompleteHeaders ==
    {<<"year", "month", "day", "hour", "min", "x", "a", "b">>,
     <<"year", "day", "hour", "sec", "x", "a", "b">>}

Row(mi, s) ==
    [year |-> 2009, month |-> 1, day |-> 1, hour |-> 0, min |-> mi, sec |-> s]

RowSet == {Row(0, 30), Row(1, 0)}

Tables ==
    [header : CompleteHeaders, rows : SeqsUpTo(RowSet, MaxRows)]
    \cup [header : IncompleteHeaders, rows : {<<Row(0, 30)>>}]

NoTable == [header |-> <<>>, rows |-> <<>>]

\* What xarray opens from the netCDF4 file(s)
NcSet ==
    {[data_vars |-> {"tec"}, coords |-> {"timestamps"},
      timestamps |-> <<1230768030>>, catalog |-> TRUE],
     [data_vars |-> {"TEC"}, coords |-> {"timestamps"},
      timestamps |-> <<1230768030, 1230768060>>, catalog |-> FALSE],
     [data_vars |-> {"tec"}, coords |-> {"timestamps", "gdlat"},
      timestamps |-> <<1230768060>>, catalog |-> TRUE]}

----------------------------------------------------------------------------
(* Values *)

NoErr == [type |-> "", msg |-> "", info |-> <<>>]

Error(t, m, i) == [type |-> t, msg |-> m, info |-> i]

Warning(m, i) == [msg |-> m, info |-> i]

NoData == [kind |-> "None", names |-> {}, dims |-> {}, index |-> <<>>]

DataFrame(cols, idx) ==
    [kind |-> "DataFrame", names |-> cols, dims |-> {}, index |-> idx]

Dataset(vs, ds, idx) ==
    [kind |-> "Dataset", names |-> vs, dims |-> ds, index |-> idx]

----------------------------------------------------------------------------
(* load(): sorting the file names by type, lines 537-552 *)

\* str.find(): position of the first occurrence, from 0, or -1
Find(fname, part) ==
    IF \E i \in DOMAIN fname : fname[i] = part
    THEN Min({i \in DOMAIN fname : fname[i] = part}) - 1
    ELSE -1

\* lines 539-543: the first file type found after the start of the name
FileTypeOf(fname) ==
    LET hits == {i \in DOMAIN file_types : Find(fname, file_types[i]) > 0}
    IN  IF hits = {} THEN "" ELSE file_types[Min(hits)]

OfType(names, ftype) == SelectSeq(names, LAMBDA f : FileTypeOf(f) = ftype)

SortFileTypes(names) ==
    [hdf5 |-> OfType(names, "hdf5"), netCDF4 |-> OfType(names, "netCDF4"),
     simple |-> OfType(names, "simple")]

\* lines 546-547
InitCoords(c) == IF c.kind = "None" THEN ListCoords(<<>>) ELSE c

\* len(xarray_coords)
LenCoords(c) == IF c.kind = "dict" THEN Len(c.groups) ELSE Len(c.keys)

\* a variant of CoordLen that counts 'time' as any other coordinate
CoordLenWithTime(c) == LenCoords(c)

\* lines 602-604: 'time' is an element of a list, never a key of a dict,
\* whose keys are tuples
CoordLen(c) ==
    IF c.kind = "list" /\ "time" \in Range(c.keys)
    THEN LenCoords(c) - 1
    ELSE LenCoords(c)

\* no other routine is called
Idle == [pc |-> "idle"]

MethodsIdle == fmt = Idle /\ inst = Idle /\ los = Idle /\ lf = Idle

\* no remote routine is called
NoRequest == [fn |-> "none"]

NoExp == [id |-> -1, startday |-> 0, endday |-> 0]

RemoteIdle ==
    /\ request = NoRequest
    /\ start = 0
    /\ stop = 0
    /\ exp_list = <<>>
    /\ exp = NoExp
    /\ gflag = FALSE
    /\ files = <<>>
    /\ mad_files = <<>>
    /\ local_files = {}
    /\ web_calls = <<>>
    /\ web_err = NoErr
    /\ web_pc = "idle"

Init ==
    /\ fnames \in SeqsUpTo(FileNames, MaxFiles)
    /\ caller_coords \in SchemaSet
    /\ xarray_coords = caller_coords
    /\ load_file_types = [hdf5 |-> <<>>, netCDF4 |-> <<>>, simple |-> <<>>]
    /\ meta = <<>>
    /\ meta_attrs = {}
    /\ labels = <<>>
    /\ data = NoData
    /\ coord_len = 0
    /\ todo = <<>>
    /\ file_data = NoTable
    /\ columns = <<>>
    /\ xdatasets = <<>>
    /\ ldata = NoData
    /\ fdata = <<>>
    /\ log = <<>>
    /\ err = NoErr
    /\ pc = "start"
    /\ RemoteIdle
    /\ MethodsIdle

\* lines 537-552
SortFileFormats ==
    /\ pc = "start"
    /\ load_file_types' = SortFileTypes(fnames)
    /\ xarray_coords' = InitCoords(xarray_coords)
    /\ pc' = "netcdf"
    /\ UNCHANGED <<fnames, caller_coords, meta, meta_attrs, labels, data,
                   coord_len, todo, file_vars, fdata, log, err>>
    /\ UNCHANGED remote_vars
    /\ UNCHANGED method_vars

----------------------------------------------------------------------------
(* load(): netCDF4 files, lines 554-596 *)

\* meta[key] = entry
SetMeta(m, key, entry) ==
    [k \in DOMAIN m \cup {key} |-> IF k = key THEN entry ELSE m[k]]

RECURSIVE SetMetaAll(_, _, _)
SetMetaAll(m, items, src) ==
    IF items = {} THEN m
    ELSE LET item == CHOOSE i \in items : TRUE
         IN  SetMetaAll(SetMeta(m, Lower(item), [name |-> item, src |-> src]),
                        items \ {item}, src)

\* line 594: file_data.rename({'timestamps': 'time'})
Rename(names) ==
    {IF n = "timestamps" THEN "time" ELSE n : n \in names}

\* line 595: pds.to_datetime(..., unit='s'), UNIX seconds to the time scale
\* of the index, which counts seconds from 2009-01-01
ToDatetime(ts) == [i \in DOMAIN ts |-> ts[i] - 1230768000]

\* lines 572-596
NetCDFMeta(m, nc) == SetMetaAll(m, nc.data_vars \cup nc.coords, "netCDF4")

NetCDFData(nc) ==
    Dataset(Rename(nc.data_vars \cup nc.coords), Rename(nc.coords),
            ToDatetime(nc.timestamps))

ReadNetCDF ==
    /\ pc = "netcdf"
    /\ IF Len(load_file_types.netCDF4) > 0
       THEN \E nc \in NcSet :
                /\ meta' = NetCDFMeta(meta, nc)
                /\ data' = NetCDFData(nc)
       ELSE UNCHANGED <<meta, data>>
    /\ pc' = "tables"
    /\ UNCHANGED <<fnames, caller_coords, xarray_coords, load_file_types,
                   meta_attrs, labels, coord_len, todo, file_vars, fdata,
                   log, err>>
    /\ UNCHANGED remote_vars
    /\ UNCHANGED method_vars

----------------------------------------------------------------------------
(* load(): HDF5 and simple files, lines 598-790 *)

\* lines 599-609
BeginTables ==
    /\ pc = "tables"
    /\ IF Len(load_file_types.hdf5) > 0 \/ Len(load_file_types.simple) > 0
       THEN /\ coord_len' = CoordLen(xarray_coords)
            /\ fnames' = load_file_types.hdf5 \o load_file_types.simple
            /\ todo' = fnames'
            /\ pc' = "loop"
       ELSE /\ UNCHANGED <<coord_len, fnames, todo>>
            /\ pc' = "final"
    /\ UNCHANGED <<caller_coords, xarray_coords, load_file_types,
                   meta, meta_attrs, labels, data, file_vars, fdata, log,
                   err>>
    /\ UNCHANGED remote_vars
    /\ UNCHANGED method_vars

\* lines 620-622 and 643-648: labels are filled by the first file only
NewLabels(lbls, header) == IF Len(lbls) = 0 THEN header ELSE lbls

\* lines 624-626 and 650-655: an entry is added only for a name not in meta
RECURSIVE AddMeta(_, _, _)
AddMeta(m, items, src) ==
    IF items = <<>> THEN m
    ELSE LET item == Head(items)
             m1 == IF Lower(item) \in DOMAIN m THEN m
                   ELSE SetMeta(m, Lower(item), [name |-> item, src |-> src])
         IN  AddMeta(m1, Tail(items), src)

NewMeta(m, lbls, header, src) ==
    IF Len(lbls) = 0 THEN AddMeta(m, header, src) ELSE m

\* lines 660-663: every other key of the HDF5 'Metadata' group becomes an
\* attribute of meta, with spaces replaced by underscores
NewAttrs(attrs, ftype) ==
    IF ftype = "hdf5" THEN attrs \cup {"Experiment_Notes"} ELSE attrs

\* lines 629-635 (simple): the keys of file_dict are the lower-case header;
\* lines 666-669 (hdf5): the records are named by labels, then lower-cased
TableColumns(ftype, lbls, tbl) ==
    IF ftype = "simple" THEN LowerSeq(tbl.header) ELSE LowerSeq(lbls)

\* line 666: pandas names the fields of the records by position and
\* refuses a list of names of another length
FromRecordsFails(ftype, lbls, tbl) ==
    ftype = "hdf5" /\ Len(lbls) # Len(tbl.header)

\* a variant of MissingTimeKeys that looks for the date columns only
MissingDateKeys(cols) ==
    SelectSeq(<<"year", "month", "day">>, LAMBDA k : k \notin Range(cols))

\* lines 675-677
MissingTimeKeys(cols) == SelectSeq(time_keys, LAMBDA k : k \notin Range(cols))

\* line 681
Uts(r) == 3600 * r.hour + 60 * r.min + r.sec

\* lines 683-685, pysat.utils.time.create_datetime_index: the date plus
\* uts seconds, here in seconds from 2009-01-01 with months of 31 days
Datetime(r) ==
    ((r.year - 2009) * 372 + (r.month - 1) * 31 + (r.day - 1)) * 86400
    + Uts(r)

DatetimeIndex(rows) == [i \in DOMAIN rows |-> Datetime(rows[i])]

\* time.duplicated()
HasDuplicates(idx) == \E i, j \in DOMAIN idx : i # j /\ idx[i] = idx[j]

\* lines 691-694
AsDict(c, cols) ==
    IF c.kind = "dict" THEN c
    ELSE DictCoords(<<Group(c.keys,
             SelectSeq(cols, LAMBDA col : col \notin Range(c.keys)))>>)

\* lines 698-699: one entry for each length of key, the last one declared
LenDict(groups) ==
    [n \in {Len(groups[i].key) : i \in DOMAIN groups} |->
        groups[Max({i \in DOMAIN groups : Len(groups[i].key) = n})].key]

\* sorted(..., reverse=True)
RECURSIVE SortedReverse(_)
SortedReverse(S) ==
    IF S = {} THEN <<>> ELSE <<Max(S)>> \o SortedReverse(S \ {Max(S)})

\* lines 700-701
CoordOrder(groups) ==
    LET len_dict == LenDict(groups)
        order == SortedReverse(DOMAIN len_dict)
    IN  [i \in DOMAIN order |-> len_dict[order[i]]]

\* line 704
AssignTime(cols) ==
    IF "time" \in Range(cols) THEN cols ELSE Append(cols, "time")

\* xarray_coords[xcoords]
VarsOf(groups, key) ==
    groups[CHOOSE i \in DOMAIN groups : groups[i].key = key].vars

\* xarray_coords[xcoords] = ...
SetVars(groups, key, vs) ==
    [i \in DOMAIN groups |->
        IF groups[i].key = key THEN Group(key, vs) ELSE groups[i]]

\* lines 717-719, good_ind: the names whose lower case is a column
Known(cols, names) == SelectSeq(names, LAMBDA n : Lower(n) \in Range(cols))

\* lines 731-733, bad_ind
Unknown(cols, names) ==
    SelectSeq(names, LAMBDA n : Lower(n) \notin Range(cols))

\* line 743: ldata[...] raises KeyError for a name that is no column
NotInIndex(cols, names) == SelectSeq(names, LAMBDA n : n \notin Range(cols))

\* lines 708-753: the loop over coord_order.  st holds the groups of
\* xarray_coords, the Datasets made so far, the log and the error raised.
RECURSIVE ForEachCoords(_, _, _)
ForEachCoords(order, cols, st) ==
    IF order = <<>> \/ st.err # NoErr THEN st
    ELSE
      LET xcoords == Head(order)
          dvars == VarsOf(st.groups, xcoords)
          good == Known(cols, dvars)
          bad == Unknown(cols, dvars)
      IN
        IF Unknown(cols, xcoords) # <<>>
        THEN [st EXCEPT !.err =
                 Error("ValueError", "unknown coordinate key", xcoords)]
        ELSE IF bad # <<>> /\ good = <<>>
        THEN [st EXCEPT !.err =
                 Error("ValueError", "All data variables are unknown", dvars)]
        ELSE
          LET st1 == IF bad # <<>>
                     THEN [st EXCEPT
                             !.groups = SetVars(@, xcoords, good),
                             !.log = Append(@,
                                 Warning("unknown data variable(s)", bad))]
                     ELSE st
              sel == xcoords \o VarsOf(st1.groups, xcoords)
          IN
            IF NotInIndex(cols, sel) # <<>>
            THEN [st1 EXCEPT !.err =
                     Error("KeyError", "not in index", NotInIndex(cols, sel))]
            ELSE ForEachCoords(Tail(order), cols,
                     [st1 EXCEPT !.xdatasets = Append(@,
                         Dataset(Range(sel), Range(xcoords), <<>>))])

\* xr.merge
XrMerge(dss) ==
    Dataset(UNION {dss[i].names : i \in DOMAIN dss},
            UNION {dss[i].dims : i \in DOMAIN dss}, <<>>)

RECURSIVE SetToSeq(_)
SetToSeq(S) ==
    IF S = {} THEN <<>>
    ELSE LET x == CHOOSE y \in S : TRUE IN <<x>> \o SetToSeq(S \ {x})

\* lines 764-776: the exception is raised in the else branch only
MergeCheck(test_variables, lcols) ==
    LET ltest == Cardinality(test_variables)
        len_data == Len(lcols)
    IN  IF ltest # len_data /\ ~(ltest < len_data)
        THEN Error("ValueError",
                   "coordinates not supplied for all data columns",
                   SetToSeq(test_variables \ Range(lcols)))
        ELSE NoErr

\* a frame as read, before it is indexed by time: rows 0, 1, ...
RangeIndex(rows) == [i \in DOMAIN rows |-> i - 1]

\* lines 688-776: recast the table as a Dataset.  loc holds the locals of
\* load; the result holds them as they are when the block ends or raises.
ConvertToXarray(cols, rows, loc) ==
    LET xc == AsDict(loc.coords, cols)
        lcols == AssignTime(cols)
        st == ForEachCoords(CoordOrder(xc.groups), lcols,
                  [groups |-> xc.groups, xdatasets |-> <<>>,
                   log |-> loc.log, err |-> NoErr])
        merged == XrMerge(st.xdatasets)
    IN  [loc EXCEPT
           !.coords = DictCoords(st.groups),
           !.columns = lcols,
           !.xdatasets = st.xdatasets,
           !.log = st.log,
           !.ldata = IF st.err # NoErr
                     THEN DataFrame(Range(lcols), RangeIndex(rows))
                     ELSE merged,
           !.err = IF st.err # NoErr THEN st.err
                   ELSE MergeCheck(merged.names, lcols)]

\* the elements of S in increasing order
RECURSIVE SortedSet(_)
SortedSet(S) ==
    IF S = {} THEN <<>> ELSE <<Min(S)>> \o SortedSet(S \ {Min(S)})

\* a variant of IndexByTime that keeps one row for each time
IndexByUniqueTime(cols, time, loc) ==
    [loc EXCEPT
       !.ldata = DataFrame(Range(cols), SortedSet(Range(time))),
       !.log = IF HasDuplicates(time)
               THEN Append(@, Warning("duplicated time indices", <<>>))
               ELSE @]

\* lines 778-787: index the table by time
IndexByTime(cols, time, loc) ==
    [loc EXCEPT
       !.ldata = DataFrame(Range(cols), time),
       !.log = IF HasDuplicates(time)
               THEN Append(@, Warning("duplicated time indices", <<>>))
               ELSE @]

\* lines 610-790: the body of the loop for one file
LoadFile(ftype, tbl, clen, loc) ==
    LET lbls == NewLabels(loc.labels, tbl.header)
        cols == TableColumns(ftype, lbls, tbl)
        opened == [loc EXCEPT
                     !.labels = lbls,
                     !.meta = NewMeta(@, loc.labels, tbl.header, ftype),
                     !.attrs = NewAttrs(@, ftype)]
        read == [opened EXCEPT
                   !.columns = cols,
                   !.ldata = DataFrame(Range(cols), RangeIndex(tbl.rows))]
    IN
      IF FromRecordsFails(ftype, lbls, tbl)
      THEN [opened EXCEPT !.err =
               Error("ValueError", "columns passed, passed data had", <<>>)]
      ELSE IF MissingTimeKeys(cols) # <<>>
      THEN [read EXCEPT !.err =
               Error("ValueError", "unable to construct time index",
                     MissingTimeKeys(cols))]
      ELSE IF clen > 0
      THEN ConvertToXarray(cols, tbl.rows, read)
      ELSE IndexByTime(cols, DatetimeIndex(tbl.rows), read)

\* the name the loop is at is in the list of simple files, line 612
TypeOfTable(fname, types) ==
    IF fname \in Range(types.simple) THEN "simple" ELSE "hdf5"

LoadTableFile ==
    /\ pc = "loop"
    /\ todo # <<>>
    /\ \E tbl \in Tables :
        LET r == LoadFile(TypeOfTable(Head(todo), load_file_types), tbl,
                          coord_len,
                          [labels |-> labels, meta |-> meta,
                           attrs |-> meta_attrs, coords |-> xarray_coords,
                           columns |-> columns, xdatasets |-> xdatasets,
                           ldata |-> ldata, log |-> log, err |-> NoErr])
        IN  /\ file_data' = tbl
            /\ labels' = r.labels
            /\ meta' = r.meta
            /\ meta_attrs' = r.attrs
            /\ xarray_coords' = r.coords
            /\ caller_coords' = IF caller_coords.kind = "dict"
                                THEN r.coords ELSE caller_coords
            /\ columns' = r.columns
            /\ xdatasets' = r.xdatasets
            /\ ldata' = r.ldata
            /\ log' = r.log
            /\ err' = r.err
            /\ IF r.err = NoErr
               THEN /\ fdata' = Append(fdata, r.ldata)
                    /\ todo' = Tail(todo)
                    /\ pc' = "loop"
               ELSE /\ UNCHANGED <<fdata, todo>>
                    /\ pc' = "raised"
    /\ UNCHANGED <<fnames, load_file_types, data, coord_len>>
    /\ UNCHANGED remote_vars
    /\ UNCHANGED method_vars

----------------------------------------------------------------------------
(* load(): merging the files, lines 792-817 *)

\* pds.concat: the columns of all the frames, the rows one after the other
RECURSIVE ConcatIndex(_)
ConcatIndex(frames) ==
    IF frames = <<>> THEN <<>>
    ELSE Head(frames).index \o ConcatIndex(Tail(frames))

Concat(frames) ==
    DataFrame(UNION {frames[i].names : i \in DOMAIN frames},
              ConcatIndex(frames))

\* sort_index: v goes after the entries of the sorted s that are <= v
Insert(s, v) ==
    LET k == Cardinality({i \in DOMAIN s : s[i] <= v})
    IN  SubSeq(s, 1, k) \o <<v>> \o SubSeq(s, k + 1, Len(s))

RECURSIVE SortTimes(_)
SortTimes(idx) ==
    IF idx = <<>> THEN <<>>
    ELSE Insert(SortTimes(SubSeq(idx, 1, Len(idx) - 1)), idx[Len(idx)])

\* a variant of SortIndex that keeps one row for each time
SortIndexUnique(frame) == [frame EXCEPT !.index = SortedSet(Range(@))]

SortIndex(frame) == [frame EXCEPT !.index = SortTimes(@)]

\* line 800, xr.combine_by_coords of two Datasets
CombineDatasets(a, b) ==
    Dataset(a.names \cup b.names, a.dims \cup b.dims, a.index)

\* lines 806-808: the sorted frame becomes a Dataset over 'time', is
\* combined with the netCDF4 data and goes back to pandas.  xarray aligns
\* the two time indexes: equal indexes are kept, an index with repeated
\* values cannot be aligned with another, and to_pandas takes one dimension.
CombineToPandas(nc, frame) ==
    IF nc.index # frame.index
       /\ (HasDuplicates(nc.index) \/ HasDuplicates(frame.index))
    THEN [data |-> NoData,
          err |-> Error("ValueError", "cannot reindex or align", <<>>)]
    ELSE IF nc.dims # {"time"}
    THEN [data |-> NoData,
          err |-> Error("ValueError", "cannot convert to pandas", <<>>)]
    ELSE [data |-> DataFrame((nc.names \ nc.dims) \cup frame.names,
                       IF nc.index = frame.index THEN frame.index
                       ELSE SortedSet(Range(nc.index) \cup Range(frame.index))),
          err |-> NoErr]

\* lines 792-808
MergeData(d, frames, clen) ==
    IF d.kind = "None" /\ Len(frames) = 1
    THEN [data |-> frames[1], err |-> NoErr]
    ELSE IF clen > 0
    THEN IF d.kind = "None"
         THEN [data |-> XrMerge(frames), err |-> NoErr]
         ELSE [data |-> CombineDatasets(d, XrMerge(frames)), err |-> NoErr]
    ELSE IF d.kind = "None"
         THEN [data |-> SortIndex(Concat(frames)), err |-> NoErr]
         ELSE CombineToPandas(d, SortIndex(Concat(frames)))

\* lines 792-817: after the merge data is set, and load returns it
MergeFiles ==
    /\ pc = "loop"
    /\ todo = <<>>
    /\ LET r == MergeData(data, fdata, coord_len)
       IN  /\ data' = r.data
           /\ err' = r.err
           /\ pc' = IF r.err = NoErr THEN "done" ELSE "raised"
    /\ UNCHANGED <<fnames, caller_coords, xarray_coords, load_file_types,
                   meta, meta_attrs, labels, coord_len, todo, file_vars,
                   fdata, log>>
    /\ UNCHANGED remote_vars
    /\ UNCHANGED method_vars

\* a variant of EmptyData that is a DataFrame whatever the coordinates
EmptyFrame(d, coords) == IF d.kind = "None" THEN DataFrame({}, <<>>) ELSE d

\* lines 810-815
EmptyData(d, coords) ==
    IF d.kind = "None"
    THEN IF LenCoords(coords) > 0
         THEN Dataset({}, {}, <<>>)
         ELSE DataFrame({}, <<>>)
    ELSE d

\* lines 810-817, reached without table files
Finish ==
    /\ pc = "final"
    /\ data' = EmptyData(data, xarray_coords)
    /\ pc' = "done"
    /\ UNCHANGED <<fnames, caller_coords, xarray_coords, load_file_types,
                   meta, meta_attrs, labels, coord_len, todo, file_vars,
                   fdata, log, err>>
    /\ UNCHANGED remote_vars
    /\ UNCHANGED method_vars

Next ==
    \/ SortFileFormats
    \/ ReadNetCDF
    \/ BeginTables
    \/ LoadTableFile
    \/ MergeFiles
    \/ Finish

Spec == Init /\ [][Next]_vars

\* load() has returned
Returned == pc = "done"

\* load() has raised
Raised == pc = "raised"

----------------------------------------------------------------------------
(* What the states say about the file loaded last *)

\* the loop has read at least one table file
FileRead == file_data # NoTable

\* the file loaded last was recast as a Dataset and its groups were merged
\* (line 760 was reached)
Merged == FileRead /\ coord_len > 0 /\ ldata.kind = "Dataset"

\* the file loaded last was indexed by time (line 779 was reached)
Indexed ==
    /\ FileRead
    /\ coord_len = 0
    /\ ~(pc = "raised" /\ err.msg \in {"columns passed, passed data had",
                                       "unable to construct time index"})

HasWarning(m) == \E i \in DOMAIN log : log[i].msg = m

----------------------------------------------------------------------------
(* C1 *)

\* C1: in a schema-based load, whenever the number of variables of the
\* merged Dataset differs from the number of columns of the table (the
\* time column included), load raises the ValueError 'coordinates not
\* supplied for all data columns', when variables are missing as when there
\* are extra ones.
C1_MismatchRaises ==
    (Merged /\ Cardinality(ldata.names) # Len(columns))
        => (Raised /\ err.type = "ValueError"
            /\ err.msg = "coordinates not supplied for all data columns")

----------------------------------------------------------------------------
(* C2 *)

\* the groups with keys of the lengths in lens, length by length, those of
\* one length in the order they are declared
RECURSIVE ByLength(_, _)
ByLength(groups, lens) ==
    IF lens = <<>> THEN <<>>
    ELSE SelectSeq(groups, LAMBDA g : Len(g.key) = Head(lens))
         \o ByLength(groups, Tail(lens))

DeclaredOrder(groups) ==
    ByLength(groups,
             SortedReverse({Len(groups[i].key) : i \in DOMAIN groups}))

\* C2: when a table is recast by a schema, each declared dimension group
\* is processed exactly once, the groups with more dimension keys first and
\* groups with as many keys in their declared order: the fragments built
\* are those of all the declared groups, in that order, also when two or
\* more groups have the same number of keys.
C2_EveryGroupInOrder ==
    Merged =>
        LET order == DeclaredOrder(xarray_coords.groups)
        IN  /\ Len(xdatasets) = Len(xarray_coords.groups)
            /\ \A i \in DOMAIN xdatasets :
                   i \in DOMAIN order
                   /\ xdatasets[i].dims = Range(order[i].key)

----------------------------------------------------------------------------
(* C3 *)

\* a name is a column of the table, as line 715 tests it
IsColumn(n, cols) == Lower(n) \in Range(cols)

Present(names, cols) == {n \in Range(names) : IsColumn(n, cols)}

Absent(names, cols) == {n \in Range(names) : ~IsColumn(n, cols)}

\* the step loads a table file into a schema, and gets a time index
RecastStep ==
    /\ pc = "loop"
    /\ todo # <<>>
    /\ coord_len > 0
    /\ xarray_coords.kind = "dict"
    /\ err'.msg \notin {"columns passed, passed data had",
                        "unable to construct time index"}

\* C3: in a schema-based load, when a group declares data variables of
\* which some but not all are columns of the table (every dimension key
\* being a column, and no group being without any of its variables), load
\* raises no error, logs a warning naming the unknown variables of the
\* group, and builds the group from its dimension keys and exactly those of
\* its variables that are present.
C3_PartialVariables ==
    [][(/\ RecastStep
        /\ \A i \in DOMAIN xarray_coords.groups :
               /\ Absent(xarray_coords.groups[i].key, columns') = {}
               /\ Present(xarray_coords.groups[i].vars, columns') # {}
        /\ \E i \in DOMAIN xarray_coords.groups :
               Absent(xarray_coords.groups[i].vars, columns') # {})
       => (/\ err' = NoErr
           /\ \A i \in DOMAIN xarray_coords.groups :
                  LET g == xarray_coords.groups[i]
                  IN  Absent(g.vars, columns') # {} =>
                        /\ \E j \in DOMAIN log' :
                               /\ j > Len(log)
                               /\ log'[j].msg = "unknown data variable(s)"
                               /\ Range(log'[j].info) = Absent(g.vars, columns')
                        /\ \E j \in DOMAIN xdatasets' :
                               /\ xdatasets'[j].dims = Range(g.key)
                               /\ xdatasets'[j].names =
                                      Range(g.key) \cup Present(g.vars, columns'))
      ]_vars

----------------------------------------------------------------------------
(* C4 *)

\* the caller gave a coordinate schema
SchemaGiven == caller_coords.kind # "None"

\* the call named HDF5 or simple files, netCDF4 files
TableFiles == Len(load_file_types.hdf5) + Len(load_file_types.simple) > 0

NetCDFFiles == Len(load_file_types.netCDF4) > 0

CoordinateBesidesTime ==
    \/ caller_coords.kind = "dict"
    \/ /\ caller_coords.kind = "list"
       /\ Len(caller_coords.keys) > Count(caller_coords.keys, "time")

\* the schema is not empty
SchemaNotEmpty ==
    Len(caller_coords.keys) + Len(caller_coords.groups) > 0

C4_NetCDFDataset ==
    /\ Returned
    /\ ~SchemaGiven
    /\ NetCDFFiles
    /\ data.kind = "Dataset"

----------------------------------------------------------------------------
(* C5 *)

\* the time columns that the table loaded last lacks
LackingTimeColumns ==
    SelectSeq(<<"year", "month", "day", "hour", "min", "sec">>,
              LAMBDA k : \A i \in DOMAIN columns : columns[i] # k)

C5_SecondFileLacking ==
    /\ Len(fdata) = 1
    /\ LackingTimeColumns = <<"sec">>
    /\ Raised

----------------------------------------------------------------------------
(* C6 *)

\* the file loaded last got a time index and went on to the schema
Recast ==
    /\ FileRead
    /\ coord_len > 0
    /\ ~(Raised /\ err.msg \in {"columns passed, passed data had",
                                "unable to construct time index"})

\* C6: in a schema-based load, if any dimension key declared in any group
\* of the schema is not a column of the table, load raises a ValueError
\* 'unknown coordinate key'.
C6_UnknownKeyRaises ==
    (/\ Recast
     /\ \E i \in DOMAIN xarray_coords.groups :
            Absent(xarray_coords.groups[i].key, columns) # {})
        => (/\ Raised
            /\ err.type = "ValueError"
            /\ err.msg = "unknown coordinate key")

----------------------------------------------------------------------------
(* C7 *)

\* the times of the rows of a file, in seconds from 2009-01-01
TimeOf(r) == 86400 * (r.day - 1) + 3600 * r.hour + 60 * r.min + r.sec

TimesOf(rows) == [i \in DOMAIN rows |-> TimeOf(rows[i])]

\* the call names table files only, and no schema that recasts them
FlatLoad == coord_len = 0 /\ ~NetCDFFiles

----------------------------------------------------------------------------
(* C8 *)

IsSorted(idx) == \A i, j \in DOMAIN idx : i < j => idx[i] <= idx[j]

\* C8: every flat table that load returns has its rows in non-decreasing
\* order of the time index, built from a single file or from several.
C8_FlatTableSorted ==
    (Returned /\ data.kind = "DataFrame") => IsSorted(data.index)

----------------------------------------------------------------------------
(* C9 *)

\* the number of rows of the frames that have the time t
RECURSIVE CountAll(_, _)
CountAll(frames, t) ==
    IF frames = <<>> THEN 0
    ELSE Count(Head(frames).index, t) + CountAll(Tail(frames), t)

\* C9: in an all-flat load of several files, the table returned holds
\* every row of every file: it has as many rows as the files together, and
\* for every time as many rows as the files have with that time.
C9_EveryRowKept ==
    /\ (Indexed /\ FlatLoad) => ldata.index = TimesOf(file_data.rows)
    /\ (Returned /\ FlatLoad /\ Len(fdata) >= 2) =>
          /\ data.kind = "DataFrame"
          /\ Len(data.index) =
                 SumSeq([i \in DOMAIN fdata |-> Len(fdata[i].index)])
          /\ \A i \in DOMAIN fdata : \A t \in Range(fdata[i].index) :
                 Count(data.index, t) = CountAll(fdata, t)

\* load has returned the rows of two files that have a time in common
C9_TimeInTwoFiles ==
    /\ Returned
    /\ FlatLoad
    /\ Len(fdata) = 2
    /\ Range(fdata[1].index) \cap Range(fdata[2].index) # {}
    /\ Len(data.index) >= 3

----------------------------------------------------------------------------
(* C10 *)

\* load was called with no file name (fnames is bound again, to the names
\* of the table files, only when there are some)
NoFilenames == fnames = <<>>

\* C10: load called with no file name raises nothing, and returns an empty
\* DataFrame when no schema is given and an empty Dataset without
\* dimensions when a schema is given, together with a Meta object that
\* holds nothing from a file.
C10_NoFilenames ==
    NoFilenames =>
        /\ ~Raised
        /\ err = NoErr
        /\ meta = <<>>
        /\ Returned =>
              data = IF SchemaGiven THEN Dataset({}, {}, <<>>)
                     ELSE DataFrame({}, <<>>)

\* load has returned an empty Dataset for no file name and a schema
C10_EmptyDataset ==
    /\ NoFilenames
    /\ Returned
    /\ SchemaGiven
    /\ data.kind = "Dataset"
    /\ data.dims = {}

\* load has returned an empty DataFrame for no file name and no schema
C10_EmptyDataFrame ==
    /\ NoFilenames
    /\ Returned
    /\ ~SchemaGiven
    /\ data.kind = "DataFrame"
    /\ data.index = <<>>

----------------------------------------------------------------------------
(* The remote routines: download(), get_remote_filenames(), good_exp(),    *)
(* list_remote_files() and _check_madrigal_params() of general.py.         *)
(*                                                                         *)
(* A Python value is a record of its type and its value.  A kindat string  *)
(* is the sequence of its characters.  A datetime is a number of half      *)
(* seconds from 1900-01-01, the default of start, so that two datetimes    *)
(* can differ within a second; a date is a number of days.                 *)

MaxDates == 2

MaxExps == 2

\* the resolution of a datetime: its steps in a second
Second == 2

\* dt.timedelta(days=1)
Day == 172800

\* dt.datetime(1900, 1, 1), the default of start
DefaultStart == 0

\* dt.datetime.utcnow(), later than every time of the model
UtcNow == 1728000

PyNone == [type |-> "NoneType", val |-> "None"]

PyStr(s) == [type |-> "str", val |-> s]

PyInt(s) == [type |-> "int", val |-> s]

PyTime(t) == [type |-> "datetime", val |-> t]

PyArray(ts) == [type |-> "array", val |-> ts]

\* str(v)
Str(v) == v.val

\* isinstance(v, str)
IsStr(v) == v.type = "str"

\* datetime.date()
Date(t) == t \div Day

\* the datetimes a caller asks for: 1900-01-02 00:00 and 1900-01-03 12:00
Times == {Day, 2 * Day + Day \div 2}

\* datetime.year, ..., datetime.second: the datetime without its part of a
\* second, in seconds
Fields(t) == t \div Second

SeqsFromTo(S, m, n) == UNION {[1..k -> S] : k \in m..n}

\* what is passed as inst_code, user and password: the values of the tests,
\* and all but one of them good
Credentials ==
    {[inst_code |-> PyStr("10"), user |-> PyStr("u"), password |-> PyStr("p")],
     [inst_code |-> PyInt("10"), user |-> PyStr("u"), password |-> PyStr("p")],
     [inst_code |-> PyNone, user |-> PyStr("u"), password |-> PyStr("p")],
     [inst_code |-> PyStr("bad"), user |-> PyStr("u"), password |-> PyStr("p")],
     [inst_code |-> PyStr("10"), user |-> PyStr(""), password |-> PyStr("p")],
     [inst_code |-> PyStr("10"), user |-> PyNone, password |-> PyStr("p")],
     [inst_code |-> PyStr("10"), user |-> PyInt("17"), password |-> PyStr("p")],
     [inst_code |-> PyStr("10"), user |-> PyStr("u"), password |-> PyStr("")],
     [inst_code |-> PyStr("10"), user |-> PyStr("u"), password |-> PyNone]}

\* what is passed as kindat
Kindats ==
    {PyNone, PyStr(<<>>), PyStr(<<"*">>), PyStr(<<"1">>),
     PyStr(<<"1", ",", "2">>), PyStr(<<"x">>)}

\* the experiments of the archive: id, first and last day
Experiment(i, s, e) == [id |-> i, startday |-> s, endday |-> e]

Experiments ==
    {Experiment(1, 1, 1), Experiment(2, 0, 0), Experiment(-1, 1, 2),
     Experiment(3, 3, 3)}

\* the files of the archive: name (directory, stem, extension) and kindat
MadFile(n, k) == [name |-> n, kindat |-> k]

\* web_data.getExperimentFiles(id)
ExperimentFiles(id) ==
    CASE id = 1 -> <<MadFile(<<"exp1", "a", "hdf5">>, 1),
                     MadFile(<<"exp1", "b", "h5">>, 2)>>
      [] id = 2 -> <<MadFile(<<"exp2", "a", "h5">>, 1)>>
      [] OTHER -> <<>>

----------------------------------------------------------------------------
(* _check_madrigal_params(), lines 1321-1358 *)

\* some of the keys of known_madrigal_inst_codes(None)
InstCodes == {"10", "120", "8100"}

CheckMadrigalParams(inst_code, user, password) ==
    IF Str(inst_code) \notin InstCodes
    THEN Error("ValueError", "Unknown Madrigal instrument code", <<>>)
    ELSE IF ~(IsStr(user) /\ IsStr(password))
    THEN Error("ValueError", "The madrigal database requries a username",
               <<>>)
    ELSE NoErr

----------------------------------------------------------------------------
(* good_exp(), lines 1032-1066 *)

\* a variant of GoodExp that does not look at the id
GoodExpAnyId(e, date_array) ==
    \/ date_array.type = "NoneType"
    \/ \E i \in DOMAIN date_array.val :
           /\ Date(date_array.val[i]) >= e.startday
           /\ Date(date_array.val[i]) <= e.endday + 1

\* date_array is None, or an array of datetimes
GoodExp(e, date_array) ==
    IF e.id # -1
    THEN IF date_array.type = "NoneType"
         THEN TRUE
         ELSE LET exp_start == e.startday
                  exp_end == e.endday + 1
              IN  \E i \in DOMAIN date_array.val :
                      /\ Date(date_array.val[i]) >= exp_start
                      /\ Date(date_array.val[i]) <= exp_end
    ELSE FALSE

----------------------------------------------------------------------------
(* get_remote_filenames(), lines 915-1029 *)

DigitValue == ("0" :> 0) @@ ("1" :> 1) @@ ("2" :> 2)

\* kindat.split(","): the pieces between the commas
RECURSIVE Split(_, _)
Split(chars, piece) ==
    IF chars = <<>> THEN <<piece>>
    ELSE IF Head(chars) = ","
    THEN <<piece>> \o Split(Tail(chars), <<>>)
    ELSE Split(Tail(chars), Append(piece, Head(chars)))

\* int(kk) raises ValueError for anything but digits
IsInt(kk) == kk # <<>> /\ \A i \in DOMAIN kk : kk[i] \in DOMAIN DigitValue

RECURSIVE ToInt(_)
ToInt(kk) ==
    IF kk = <<>> THEN 0
    ELSE 10 * ToInt(SubSeq(kk, 1, Len(kk) - 1)) + DigitValue[kk[Len(kk)]]

\* lines 979-982
IsAllKindats(kindat) == kindat = <<>> \/ kindat = <<"*">>

KindatFails(kindat) ==
    /\ ~IsAllKindats(kindat)
    /\ \E i \in DOMAIN Split(kindat, <<>>) : ~IsInt(Split(kindat, <<>>)[i])

KindatList(kindat) ==
    IF IsAllKindats(kindat) THEN <<>>
    ELSE [i \in DOMAIN Split(kindat, <<>>) |-> ToInt(Split(kindat, <<>>)[i])]

\* a variant of KeepFiles that keeps the files of every kindat
KeepAllFiles(file_list, kindat) == file_list

\* lines 1021-1027: the files of file_list that are added to files
KeepFiles(file_list, kindat) ==
    IF Len(kindat) = 0 THEN file_list
    ELSE SelectSeq(file_list, LAMBDA f : f.kindat \in Range(kindat))

----------------------------------------------------------------------------
(* download(), lines 820-912 *)

\* os.path.join(data_path, os.path.basename(mad_file.name))
JoinBasename(name) == <<"data_path">> \o SubSeq(name, Len(name) - 1, Len(name))

\* lines 896-899: the extension becomes file_type when file_type is not
\* found in the name
LocalFile(name, file_type) ==
    LET local_file == JoinBasename(name)
    IN  IF Find(local_file, file_type) <= 0
        THEN [local_file EXCEPT ![Len(local_file)] = file_type]
        ELSE local_file

----------------------------------------------------------------------------
(* The calls of the remote routines *)

GoodCredentials ==
    [inst_code |-> PyStr("10"), user |-> PyStr("u"), password |-> PyStr("p")]

\* date_array of download: one date or more
DateArrays == {PyArray(ts) : ts \in SeqsFromTo(Times, 1, MaxDates)}

\* what is passed as start and stop
StartStops ==
    {<<PyNone, PyNone>>, <<PyTime(Day), PyTime(Day)>>,
     <<PyTime(Day), PyTime(2 * Day + Day \div 2)>>, <<PyTime(Day), PyNone>>,
     <<PyTime(Day), PyTime(Day + 1)>>}

\* what the archive holds: the experiments getExperiments returns
Archives == SeqsUpTo(Experiments, MaxExps)

Request(fn, ftype, cred, kindat, dates, ss, given, archive) ==
    [fn |-> fn, file_type |-> ftype, inst_code |-> cred.inst_code,
     user |-> cred.user, password |-> cred.password, kindat |-> kindat,
     date_array |-> dates, start |-> ss[1], stop |-> ss[2],
     supported_tags |-> given[1], kindats |-> given[2], tag |-> given[3],
     archive |-> archive, run |-> 1]

AllGiven == <<TRUE, TRUE, TRUE>>

\* dates that are not contiguous: 1900-01-01 and 1900-01-03 12:00
GapDates == PyArray(<<0, 2 * Day + Day \div 2>>)

DownloadRequests ==
    {Request("download", ft, GoodCredentials, k, d, <<PyNone, PyNone>>,
             AllGiven, a) :
        ft \in {"hdf5", "txt"}, k \in Kindats, d \in DateArrays,
        a \in Archives}
    \cup
    {Request("download", ft, c, PyStr(<<"1">>), PyArray(<<Day>>),
             <<PyNone, PyNone>>, AllGiven, <<Experiment(1, 2, 2)>>) :
        ft \in {"hdf5", "netCDF4", "simple", "txt"}, c \in Credentials}
    \cup
    {Request("download", "hdf5", GoodCredentials, k, GapDates,
             <<PyNone, PyNone>>, AllGiven, a) :
        k \in {PyStr(<<>>), PyStr(<<"1">>)}, a \in Archives}

GetRemoteFilenamesRequests ==
    {Request("get_remote_filenames", "", GoodCredentials, k, d,
             <<PyNone, PyNone>>, AllGiven, a) :
        k \in Kindats, d \in DateArrays \cup {PyArray(<<>>)}, a \in Archives}
    \cup
    {Request("get_remote_filenames", "", GoodCredentials, k, PyNone, ss,
             AllGiven, a) :
        k \in Kindats, ss \in StartStops, a \in Archives}
    \cup
    {Request("get_remote_filenames", "", c, PyStr(<<>>), PyArray(<<>>),
             <<PyNone, PyNone>>, AllGiven, <<Experiment(1, 2, 2)>>) :
        c \in Credentials}

ListRemoteFilesRequests ==
    {Request("list_remote_files", "", GoodCredentials, k, PyNone, ss,
             AllGiven, a) :
        k \in Kindats \ {PyNone}, ss \in StartStops, a \in Archives}
    \cup
    {Request("list_remote_files", "", c, PyStr(<<"1">>), PyNone,
             <<PyNone, PyNone>>, g, <<Experiment(1, 2, 2)>>) :
        c \in Credentials,
        g \in {AllGiven, <<FALSE, TRUE, TRUE>>, <<TRUE, FALSE, TRUE>>,
               <<TRUE, TRUE, FALSE>>}}

\* the files in data_path when the routine is called
LocalFileSets == {{}, {<<"data_path", "a", "hdf5">>}}

\* load() is not called
LoadIdle ==
    /\ fnames = <<>>
    /\ caller_coords = NoCoords
    /\ xarray_coords = NoCoords
    /\ load_file_types = [hdf5 |-> <<>>, netCDF4 |-> <<>>, simple |-> <<>>]
    /\ meta = <<>>
    /\ meta_attrs = {}
    /\ labels = <<>>
    /\ data = NoData
    /\ coord_len = 0
    /\ todo = <<>>
    /\ file_data = NoTable
    /\ columns = <<>>
    /\ xdatasets = <<>>
    /\ ldata = NoData
    /\ fdata = <<>>
    /\ log = <<>>
    /\ err = NoErr
    /\ pc = "idle"

RemoteInit ==
    /\ LoadIdle
    /\ MethodsIdle
    /\ request \in DownloadRequests \cup GetRemoteFilenamesRequests
                   \cup ListRemoteFilesRequests
    /\ local_files \in LocalFileSets
    /\ start = 0
    /\ stop = 0
    /\ exp_list = <<>>
    /\ exp = NoExp
    /\ gflag = FALSE
    /\ files = <<>>
    /\ mad_files = <<>>
    /\ web_calls = <<>>
    /\ web_err = NoErr
    /\ web_pc = "call"

----------------------------------------------------------------------------
(* The remote routines as steps *)

\* v is None
IsNone(v) == v.type = "NoneType"

\* a call of madrigalWeb: MadrigalData(url) opens the connection
WebCall(fn, args) == [fn |-> fn, args |-> args]

\* date_array.min(), date_array.max()
MinTime(ts) == Min(Range(ts))

MaxTime(ts) == Max(Range(ts))

\* lines 880-881 and 1003-1004
Increment(t0, t1) == IF t0 = t1 THEN t1 + Day ELSE t1

\* a variant of DownloadCheck that leaves the instrument code, the user and
\* the password to get_remote_filenames
DownloadCheckFormat(r) ==
    IF r.file_type \notin Range(file_types)
    THEN Error("ValueError", "Unknown file format", <<>>)
    ELSE IF r.kindat.type = "NoneType"
    THEN Error("ValueError", "Must supply Madrigal experiment code", <<>>)
    ELSE NoErr

\* lines 868-875
DownloadCheck(r) ==
    IF r.file_type \notin Range(file_types)
    THEN Error("ValueError", "Unknown file format", <<>>)
    ELSE IF CheckMadrigalParams(r.inst_code, r.user, r.password) # NoErr
    THEN CheckMadrigalParams(r.inst_code, r.user, r.password)
    ELSE IF IsNone(r.kindat)
    THEN Error("ValueError", "Must supply Madrigal experiment code", <<>>)
    ELSE NoErr

\* lines 868-891: download() up to its call of get_remote_filenames
Download ==
    /\ web_pc = "call"
    /\ request.fn = "download"
    /\ IF DownloadCheck(request) # NoErr
       THEN /\ web_err' = DownloadCheck(request)
            /\ web_pc' = "raised"
            /\ UNCHANGED <<start, stop, web_calls>>
       ELSE /\ start' = MinTime(request.date_array.val)
            /\ stop' = Increment(MinTime(request.date_array.val),
                                 MaxTime(request.date_array.val))
            /\ web_calls' = Append(web_calls, WebCall("MadrigalData", <<>>))
            /\ web_pc' = "get_remote_filenames"
            /\ UNCHANGED web_err
    /\ UNCHANGED <<request, exp_list, exp, gflag, files, mad_files,
                   local_files>>
    /\ UNCHANGED load_vars
    /\ UNCHANGED method_vars

\* lines 1150-1166
ListRemoteCheck(r) ==
    IF CheckMadrigalParams(r.inst_code, r.user, r.password) # NoErr
    THEN CheckMadrigalParams(r.inst_code, r.user, r.password)
    ELSE IF ~r.supported_tags \/ ~r.kindats
    THEN Error("ValueError", "Must supply supported_tags and kindats", <<>>)
    ELSE IF ~r.tag
    THEN Error("KeyError", "tag", <<>>)
    ELSE NoErr

\* lines 1150-1171: list_remote_files() up to its call of
\* get_remote_filenames
ListRemoteFiles ==
    /\ web_pc = "call"
    /\ request.fn = "list_remote_files"
    /\ IF ListRemoteCheck(request) # NoErr
       THEN /\ web_err' = ListRemoteCheck(request)
            /\ web_pc' = "raised"
            /\ UNCHANGED <<start, stop>>
       ELSE /\ start' = IF IsNone(request.start) THEN DefaultStart
                        ELSE request.start.val
            /\ stop' = IF IsNone(request.stop) THEN UtcNow
                       ELSE request.stop.val
            /\ web_pc' = "get_remote_filenames"
            /\ UNCHANGED web_err
    /\ UNCHANGED <<request, exp_list, exp, gflag, files, mad_files,
                   local_files, web_calls>>
    /\ UNCHANGED load_vars
    /\ UNCHANGED method_vars

\* the arguments of get_remote_filenames: those of the caller, or those
\* download (lines 888-891) and list_remote_files (lines 1169-1171) pass
DateArrayArg ==
    IF request.fn = "get_remote_filenames" THEN request.date_array ELSE PyNone

StartArg ==
    IF request.fn = "get_remote_filenames" THEN request.start
    ELSE PyTime(start)

StopArg ==
    IF request.fn = "get_remote_filenames" THEN request.stop
    ELSE PyTime(stop)

WebDataGiven == request.fn = "download"

\* lines 977-988
RemoteFilenamesCheck(r, date_array) ==
    IF CheckMadrigalParams(r.inst_code, r.user, r.password) # NoErr
    THEN CheckMadrigalParams(r.inst_code, r.user, r.password)
    ELSE IF IsNone(r.kindat)
    THEN Error("AttributeError", "'NoneType' object has no attribute 'split'",
               <<>>)
    ELSE IF KindatFails(r.kindat.val)
    THEN Error("ValueError", "invalid literal for int()", <<>>)
    ELSE IF ~IsNone(date_array) /\ Len(date_array.val) = 0
    THEN Error("ValueError", "unknown date_array supplied", <<>>)
    ELSE NoErr

\* lines 985-1000
StartOf(date_array, t) ==
    IF ~IsNone(date_array) THEN MinTime(date_array.val)
    ELSE IF IsNone(t) THEN DefaultStart ELSE t.val

StopOf(date_array, t) ==
    IF ~IsNone(date_array) THEN MaxTime(date_array.val)
    ELSE IF IsNone(t) THEN UtcNow ELSE t.val

\* lines 977-1018: get_remote_filenames() up to its loop
GetRemoteFilenames ==
    /\ \/ web_pc = "get_remote_filenames"
       \/ web_pc = "call" /\ request.fn = "get_remote_filenames"
    /\ IF RemoteFilenamesCheck(request, DateArrayArg) # NoErr
       THEN /\ web_err' = RemoteFilenamesCheck(request, DateArrayArg)
            /\ web_pc' = "raised"
            /\ UNCHANGED <<start, stop, exp_list, web_calls>>
       ELSE /\ start' = StartOf(DateArrayArg, StartArg)
            /\ stop' = Increment(StartOf(DateArrayArg, StartArg),
                                 StopOf(DateArrayArg, StopArg))
            /\ web_calls' =
                   web_calls
                   \o (IF WebDataGiven THEN <<>>
                       ELSE <<WebCall("MadrigalData", <<>>)>>)
                   \o <<WebCall("getExperiments",
                                <<Fields(start'), Fields(stop')>>)>>
            /\ exp_list' = request.archive
            /\ web_pc' = "experiments"
            /\ UNCHANGED web_err
    /\ files' = <<>>
    /\ UNCHANGED <<request, exp, gflag, mad_files, local_files>>
    /\ UNCHANGED load_vars
    /\ UNCHANGED method_vars

\* lines 1019-1027: one experiment of the loop
NextExperiment ==
    /\ web_pc = "experiments"
    /\ exp_list # <<>>
    /\ exp' = Head(exp_list)
    /\ exp_list' = Tail(exp_list)
    /\ gflag' = GoodExp(Head(exp_list), DateArrayArg)
    /\ IF gflag'
       THEN /\ web_calls' = Append(web_calls,
                   WebCall("getExperimentFiles", <<Head(exp_list).id>>))
            /\ files' = files \o KeepFiles(ExperimentFiles(Head(exp_list).id),
                                          KindatList(request.kindat.val))
       ELSE UNCHANGED <<web_calls, files>>
    /\ UNCHANGED <<request, start, stop, mad_files, local_files, web_err,
                   web_pc>>
    /\ UNCHANGED load_vars
    /\ UNCHANGED method_vars

\* line 1029: get_remote_filenames() returns files, to download() (line
\* 893) or to its caller
ReturnFiles ==
    /\ web_pc = "experiments"
    /\ exp_list = <<>>
    /\ IF request.fn = "download"
       THEN /\ mad_files' = files
            /\ web_pc' = "files"
       ELSE /\ UNCHANGED mad_files
            /\ web_pc' = "done"
    /\ UNCHANGED <<request, start, stop, exp_list, exp, gflag, files,
                   local_files, web_calls, web_err>>
    /\ UNCHANGED load_vars
    /\ UNCHANGED method_vars

\* a variant of IsFile for a data_path that never shows a file
IsFileNever(local_file, present) == FALSE

\* os.path.isfile(local_file)
IsFile(local_file, present) == local_file \in present

\* lines 893-910: one file of the loop of download(); downloadFile writes
\* the local file
DownloadFile ==
    /\ web_pc = "files"
    /\ mad_files # <<>>
    /\ LET mad_file == Head(mad_files)
           local_file == LocalFile(mad_file.name, request.file_type)
       IN  IF ~IsFile(local_file, local_files)
           THEN /\ web_calls' = Append(web_calls,
                       WebCall("downloadFile", <<mad_file.name, local_file>>))
                /\ local_files' = local_files \cup {local_file}
           ELSE UNCHANGED <<web_calls, local_files>>
    /\ mad_files' = Tail(mad_files)
    /\ UNCHANGED <<request, start, stop, exp_list, exp, gflag, files,
                   web_err, web_pc>>
    /\ UNCHANGED load_vars
    /\ UNCHANGED method_vars

\* line 912
DownloadReturn ==
    /\ web_pc = "files"
    /\ mad_files = <<>>
    /\ web_pc' = "done"
    /\ UNCHANGED <<request, start, stop, exp_list, exp, gflag, files,
                   mad_files, local_files, web_calls, web_err>>
    /\ UNCHANGED load_vars
    /\ UNCHANGED method_vars

\* download() is called once more with the same arguments and the same
\* archive; a file of data_path may have been removed since
DownloadAgain ==
    /\ web_pc = "done"
    /\ request.fn = "download"
    /\ request.run = 1
    /\ request' = [request EXCEPT !.run = 2]
    /\ \E removed \in {{}} \cup {{f} : f \in local_files} :
           local_files' = local_files \ removed
    /\ web_calls' = <<>>
    /\ files' = <<>>
    /\ exp' = NoExp
    /\ gflag' = FALSE
    /\ web_pc' = "call"
    /\ UNCHANGED <<start, stop, exp_list, mad_files, web_err>>
    /\ UNCHANGED load_vars
    /\ UNCHANGED method_vars

RemoteNext ==
    \/ Download
    \/ ListRemoteFiles
    \/ GetRemoteFilenames
    \/ NextExperiment
    \/ ReturnFiles
    \/ DownloadFile
    \/ DownloadReturn
    \/ DownloadAgain

RemoteSpec == RemoteInit /\ [][RemoteNext]_vars

\* a remote routine has returned, has raised
RemoteReturned == web_pc = "done"

RemoteRaised == web_pc = "raised"

----------------------------------------------------------------------------
(* C11, C12 *)

\* good_exp was called for exp, and gflag is what it returned
Examined == exp # NoExp

\* a requested date is within the days of the experiment
DateInRange(e, dates) ==
    \E i \in DOMAIN dates :
        /\ e.startday <= dates[i] \div 172800
        /\ dates[i] \div 172800 <= e.endday

\* C11: with a date filter, good_exp returns True exactly when the id of
\* the experiment is not -1 and its date range, from its start date to its
\* end date, contains at least one requested date; an experiment whose date
\* range contains no requested date is never good.
C11_GoodByDateRange ==
    (Examined /\ ~IsNone(DateArrayArg)) =>
        (gflag <=> (exp.id # -1 /\ DateInRange(exp, DateArrayArg.val)))

\* C12: good_exp returns False for every experiment of id -1, with no date
\* filter or with any list of dates, and with no date filter it returns
\* True for every experiment whose id is not -1.
C12_GoodById ==
    Examined =>
        /\ exp.id = -1 => ~gflag
        /\ (IsNone(DateArrayArg) /\ exp.id # -1) => gflag

\* good_exp has returned False for an experiment of id -1 whose date range
\* contains a requested date
C12_BadIdInRange ==
    /\ Examined
    /\ exp.id = -1
    /\ ~IsNone(DateArrayArg)
    /\ DateInRange(exp, DateArrayArg.val)
    /\ ~gflag

----------------------------------------------------------------------------
(* C13 *)

\* the kindats a kindat string asks for; {} stands for all of them
WantedKindats(kindat) ==
    CASE kindat = <<"1">> -> {1}
      [] kindat = <<"1", ",", "2">> -> {1, 2}
      [] OTHER -> {}

Wanted(f, kindat) ==
    WantedKindats(kindat) = {} \/ f.kindat \in WantedKindats(kindat)

\* the remote file list: the wanted files of the good experiments of exps
RECURSIVE FilesOf(_, _, _)
FilesOf(exps, dates, kindat) ==
    IF exps = <<>> THEN <<>>
    ELSE (IF GoodExp(Head(exps), dates)
          THEN SelectSeq(ExperimentFiles(Head(exps).id),
                         LAMBDA f : Wanted(f, kindat))
          ELSE <<>>)
         \o FilesOf(Tail(exps), dates, kindat)

\* the local target files of the remote file list of download
Targets ==
    {LocalFile(f.name, request.file_type) :
        f \in Range(FilesOf(request.archive, PyNone, request.kindat.val))}

\* the second invocation of download starts, and every target file exists
SecondCallAllLocal ==
    /\ request.fn = "download"
    /\ request.run = 2
    /\ web_pc = "call"
    /\ Targets \subseteq local_files

NoDownloadFile == \A i \in DOMAIN web_calls : web_calls[i].fn # "downloadFile"

\* the step calls downloadFile
DownloadFileCalled ==
    /\ Len(web_calls') = Len(web_calls) + 1
    /\ web_calls'[Len(web_calls')].fn = "downloadFile"

\* C13: when download is invoked a second time with the same arguments and
\* the same remote file list, and every local target file exists when this
\* invocation starts, it never calls downloadFile; and in every invocation
\* a step calls downloadFile for a remote file only if the local target
\* file of this remote file does not exist when the step is taken.
C13_DownloadOnlyAbsent ==
    /\ [](SecondCallAllLocal => []NoDownloadFile)
    /\ [][DownloadFileCalled =>
             LET call == web_calls'[Len(web_calls')]
             IN  /\ call.args[1] = Head(mad_files).name
                 /\ call.args[2] \in Targets
                 /\ call.args[2] \notin local_files]_vars

\* the second invocation has returned without a call of downloadFile, for
\* a remote file list of two files
C13_SecondCallSkipsAll ==
    /\ request.fn = "download"
    /\ request.run = 2
    /\ web_pc = "done"
    /\ Len(files) = 2
    /\ NoDownloadFile

\* the second invocation has called downloadFile for the one file that was
\* removed
C13_SecondCallOneFile ==
    /\ request.fn = "download"
    /\ request.run = 2
    /\ web_pc = "done"
    /\ Len(files) = 2
    /\ Len(SelectSeq(web_calls, LAMBDA c : c.fn = "downloadFile")) = 1

----------------------------------------------------------------------------
(* C14 *)

\* the messages of the configuration errors
ConfigurationMessages ==
    {"Unknown file format", "Unknown Madrigal instrument code",
     "The madrigal database requries a username",
     "Must supply Madrigal experiment code", "unknown date_array supplied",
     "Must supply supported_tags and kindats"}

\* what is wrong with the configuration of the call
UnknownFileType ==
    request.fn = "download"
    /\ request.file_type \notin {"hdf5", "netCDF4", "simple"}

UnknownInstCode ==
    request.inst_code.type = "NoneType" \/ request.inst_code.val = "bad"

NotAString ==
    request.user.type # "str" \/ request.password.type # "str"

KindatNone == request.fn = "download" /\ IsNone(request.kindat)

EmptyDateArray ==
    /\ request.fn = "get_remote_filenames"
    /\ ~IsNone(request.date_array)
    /\ request.date_array.val = <<>>

TagsOrKindatsMissing ==
    /\ request.fn = "list_remote_files"
    /\ ~(request.supported_tags /\ request.kindats)

ConfigurationWrong ==
    \/ UnknownFileType
    \/ UnknownInstCode
    \/ NotAString
    \/ KindatNone
    \/ EmptyDateArray
    \/ TagsOrKindatsMissing

\* get_remote_filenames fails on its kindat before it looks at date_array
KindatUnreadable ==
    /\ request.fn = "get_remote_filenames"
    /\ (IsNone(request.kindat) \/ request.kindat.val = <<"x">>)

ConfigurationError ==
    /\ RemoteRaised
    /\ web_err.type = "ValueError"
    /\ web_err.msg \in ConfigurationMessages

\* C14: download, get_remote_filenames and list_remote_files raise their
\* configuration ValueErrors (unknown file type, unknown instrument code,
\* user or password not a string, kindat None, empty date_array, missing
\* supported_tags or kindats) before the connection to the archive is
\* opened and before any remote call: when one of them is raised no call of
\* madrigalWeb was made, a call with one of these faults makes no call of
\* madrigalWeb at all, and the error it ends with is one of these
\* ValueErrors (unless get_remote_filenames could not read its kindat).
C14_RaisedBeforeConnection ==
    /\ ConfigurationError => web_calls = <<>>
    /\ ConfigurationWrong =>
          /\ web_calls = <<>>
          /\ web_pc \in {"call", "raised"}
          /\ (RemoteRaised /\ ~KindatUnreadable) => ConfigurationError

\* download has raised for a kindat of None, with good credentials
C14_KindatNoneRaised ==
    /\ request.fn = "download"
    /\ KindatNone
    /\ ConfigurationError
    /\ web_err.msg = "Must supply Madrigal experiment code"
    /\ web_calls = <<>>

\* get_remote_filenames has raised for an empty date_array
C14_EmptyDateArrayRaised ==
    /\ EmptyDateArray
    /\ ConfigurationError
    /\ web_err.msg = "unknown date_array supplied"
    /\ web_calls = <<>>

----------------------------------------------------------------------------
(* C15 *)

\* get_remote_filenames has returned files, to its caller or to download
FilesReturned == web_pc \in {"files", "done"}

\* the ids of the good experiments of exps, in the order of exps
GoodIds(exps, dates) ==
    LET good == SelectSeq(exps, LAMBDA e : GoodExp(e, dates))
    IN  [i \in DOMAIN good |-> good[i].id]

\* the ids of the experiments whose file list was requested, in the order
\* of the requests
RequestedIds ==
    LET calls == SelectSeq(web_calls, LAMBDA c : c.fn = "getExperimentFiles")
    IN  [i \in DOMAIN calls |-> calls[i].args[1]]

\* the experiments of the archive that the loop has passed
Passed ==
    SubSeq(request.archive, 1, Len(request.archive) - Len(exp_list))

\* C15: get_remote_filenames returns, in the order of the experiments and
\* then of the files of each, exactly the files of the good experiments
\* whose kindat is in the requested list of kindats, or all the files of the
\* good experiments when kindat is '' or '*'; the file lists it requests
\* are those of the good experiments, one request for each, in their order.
C15_FilesOfGoodExperiments ==
    /\ FilesReturned =>
          /\ files = FilesOf(request.archive, DateArrayArg, request.kindat.val)
          /\ RequestedIds = GoodIds(request.archive, DateArrayArg)
    /\ web_pc = "experiments" => RequestedIds = GoodIds(Passed, DateArrayArg)

\* get_remote_filenames has returned the one file of kindat 1 of an archive
\* of an experiment that is not good and an experiment of two files
C15_OneFileOfThree ==
    /\ request.fn = "get_remote_filenames"
    /\ web_pc = "done"
    /\ request.kindat.val = <<"1">>
    /\ request.archive = <<Experiment(-1, 1, 2), Experiment(1, 1, 1)>>
    /\ files = <<MadFile(<<"exp1", "a", "hdf5">>, 1)>>
    /\ RequestedIds = <<1>>

\* get_remote_filenames has returned every file of two experiments for the
\* kindat '*'
C15_AllFiles ==
    /\ request.fn = "get_remote_filenames"
    /\ web_pc = "done"
    /\ request.kindat.val = <<"*">>
    /\ Len(files) = 3

----------------------------------------------------------------------------
(* C16 *)

NonEmptyString(v) == v.type = "str" /\ v.val # ""

\* the routine has taken its first step
Started == web_pc # "call" \/ request.run = 2

\* C16: download, get_remote_filenames and list_remote_files reject with a
\* ValueError every call in which the instrument code, the user or the
\* password is anything but a non-empty string, the empty string as user or
\* password included.
C16_OnlyNonEmptyStrings ==
    (/\ Started
     /\ ~(/\ NonEmptyString(request.inst_code)
          /\ NonEmptyString(request.user)
          /\ NonEmptyString(request.password)))
        => (RemoteRaised /\ web_err.type = "ValueError")

\* the same for the values that are no strings: these are rejected, but for
\* a number that str() turns into a known instrument code
C16_NonStringsRejected ==
    (/\ Started
     /\ \/ request.inst_code.type = "NoneType"
        \/ request.user.type # "str"
        \/ request.password.type # "str")
        => (RemoteRaised /\ web_err.type = "ValueError" /\ web_calls = <<>>)

\* get_remote_filenames has asked the archive for its experiments with an
\* empty user name
C16_EmptyUserAccepted ==
    /\ request.user = PyStr("")
    /\ \E i \in DOMAIN web_calls : web_calls[i].fn = "getExperiments"

----------------------------------------------------------------------------
(* C20 *)

\* the date range is that of date_array, for download and for a call of
\* get_remote_filenames with a date_array, and otherwise start and stop
RangeOfDateArray ==
    \/ request.fn = "download"
    \/ request.fn = "get_remote_filenames" /\ ~IsNone(request.date_array)

\* the start and the end of the date range that the caller asks for
RequestedStart ==
    IF RangeOfDateArray THEN Min(Range(request.date_array.val))
    ELSE IF IsNone(request.start) THEN 0
    ELSE request.start.val

RequestedStop ==
    IF RangeOfDateArray THEN Max(Range(request.date_array.val))
    ELSE IF IsNone(request.stop) THEN 1728000
    ELSE request.stop.val

\* the calls of getExperiments so far
Queries == SelectSeq(web_calls, LAMBDA c : c.fn = "getExperiments")

\* the first half of C20: when the requested start and end of the date
\* range are equal, the experiments are asked for with an end one day, in
\* seconds, after the start
C20_EqualGetsOneDay ==
    \A i \in DOMAIN Queries :
        RequestedStart = RequestedStop =>
            Queries[i].args[2] = Queries[i].args[1] + 86400

\* C20: whenever the requested start and end of the date range are equal,
\* the experiments are asked for with the end exactly one day after the
\* start, and getExperiments is never called with a start equal to its
\* stop.
C20_StopAfterStart ==
    /\ C20_EqualGetsOneDay
    /\ \A i \in DOMAIN Queries : Queries[i].args[1] # Queries[i].args[2]

\* the experiments were asked for from a start to the same stop, for a
\* requested start and end half a second apart
C20_SameSecond ==
    /\ Queries # <<>>
    /\ RequestedStop = RequestedStart + 1
    /\ Queries[1].args[1] = Queries[1].args[2]

\* the experiments of one day were asked for, for a requested start equal
\* to the end
C20_OneDay ==
    /\ Queries # <<>>
    /\ RequestedStart = RequestedStop
    /\ Queries[1].args[2] = Queries[1].args[1] + 86400

----------------------------------------------------------------------------
(* C17 *)

\* file names that are no full paths: the name of a file type comes first
RelativeFileNames ==
    {<<"hdf5", "d", "hdf5">>, <<"hdf5", "netCDF4">>, <<"simple", "gz">>,
     <<"d", "netCDF4", "hdf5">>}

\* load() is called without a schema, with full paths and relative names
NamesInit ==
    /\ fnames \in SeqsUpTo(FileNames \cup RelativeFileNames, MaxFiles)
    /\ caller_coords = NoCoords
    /\ xarray_coords = caller_coords
    /\ load_file_types = [hdf5 |-> <<>>, netCDF4 |-> <<>>, simple |-> <<>>]
    /\ meta = <<>>
    /\ meta_attrs = {}
    /\ labels = <<>>
    /\ data = NoData
    /\ coord_len = 0
    /\ todo = <<>>
    /\ file_data = NoTable
    /\ columns = <<>>
    /\ xdatasets = <<>>
    /\ ldata = NoData
    /\ fdata = <<>>
    /\ log = <<>>
    /\ err = NoErr
    /\ pc = "start"
    /\ RemoteIdle
    /\ MethodsIdle

NamesSpec == NamesInit /\ [][Next]_vars

\* the name of the file type is a part of the file name
Occurs(ftype, fname) == \E i \in DOMAIN fname : fname[i] = ftype

\* the first of hdf5, netCDF4, simple that is a part of the file name
FirstOccurring(fname) ==
    IF Occurs("hdf5", fname) THEN "hdf5"
    ELSE IF Occurs("netCDF4", fname) THEN "netCDF4"
    ELSE IF Occurs("simple", fname) THEN "simple"
    ELSE "none"

NamesOf(ftype) == SelectSeq(fnames, LAMBDA f : FirstOccurring(f) = ftype)

\* the file names are sorted by type, and nothing else was done
Sorted == pc = "netcdf"

\* C17: load assigns each file name to at most one file type, the first of
\* hdf5, netCDF4, simple whose name occurs in the file name, and a file
\* name in which none of them occurs is skipped: it is assigned to no type,
\* and a call with such names only logs no warning, raises no error and
\* returns no data.
C17_FirstOccurringType ==
    /\ Sorted =>
          /\ load_file_types.hdf5 = NamesOf("hdf5")
          /\ load_file_types.netCDF4 = NamesOf("netCDF4")
          /\ load_file_types.simple = NamesOf("simple")
    /\ (Len(NamesOf("none")) = Len(fnames)) =>
          /\ log = <<>>
          /\ ~Raised
          /\ Returned => data.index = <<>> /\ data.names = {}

\* the same for full paths, in which the name of the type never comes first
C17_FullPaths ==
    (\A i \in DOMAIN fnames : fnames[i][1] = "d") => C17_FirstOccurringType

\* a relative name that starts with hdf5 and ends with it was skipped
C17_RelativeNameSkipped ==
    /\ Sorted
    /\ fnames = <<<<"hdf5", "d", "hdf5">>>>
    /\ load_file_types.hdf5 = <<>>

\* a full path with two type names was assigned to hdf5 only
C17_TwoTypesInName ==
    /\ Sorted
    /\ fnames = <<<<"d", "netCDF4", "hdf5">>>>
    /\ load_file_types.hdf5 = fnames
    /\ load_file_types.netCDF4 = <<>>

----------------------------------------------------------------------------
(* C18 *)

\* the column names found in the table file loaded last, in lower case
FoundColumns == Range(LowerSeq(file_data.header))

\* the entries of meta are kept as they are
EntriesKept == \A k \in DOMAIN meta : k \in DOMAIN meta' /\ meta'[k] = meta[k]

\* the second half of C18: no file overwrites an entry of meta that exists
C18_NoOverwrite == [][EntriesKept]_vars

\* C18: during a load of HDF5 or simple files, every column name found in
\* any of the files has an entry in meta once the file is loaded, and no
\* later file overwrites an entry that exists.
C18_EveryColumnHasMeta ==
    /\ []((FileRead /\ ~Raised) => FoundColumns \subseteq DOMAIN meta)
    /\ [][EntriesKept]_vars

\* load has returned a table with a column c, found in the second file
\* only, and meta has no entry for c
C18_ColumnWithoutMeta ==
    /\ Returned
    /\ FlatLoad
    /\ Len(fdata) = 2
    /\ "c" \in FoundColumns
    /\ "c" \in data.names
    /\ "c" \notin DOMAIN meta

\* the second file has the columns of the first in another case, and the
\* entries of meta are those of the first file
C18_FirstFileWins ==
    /\ Returned
    /\ FlatLoad
    /\ Len(fdata) = 2
    /\ "a" \in FoundColumns
    /\ labels # file_data.header
    /\ meta["a"].name = "A"

----------------------------------------------------------------------------
(* C19 *)

IsLower(n) == Lower(n) = n

\* the columns of the DataFrame or the variables of the Dataset returned,
\* but for the time index
ReturnedNames == data.names \ {"time"}

\* C19: every column or variable name of the data that load returns is
\* lower case, for HDF5, netCDF4 and simple files, and meta is keyed by
\* these same lower-case names.
C19_LowerCaseNames ==
    Returned =>
        \A n \in ReturnedNames : IsLower(n) /\ n \in DOMAIN meta

\* the first half of C19 for the HDF5 and simple files: the names are
\* lower case
C19_TableNamesLower ==
    (Returned /\ ~NetCDFFiles) => \A n \in ReturnedNames : IsLower(n)

\* load has returned a Dataset of a netCDF4 file with the variable TEC,
\* and the key of meta is tec
C19_UpperCaseVariable ==
    /\ Returned
    /\ NetCDFFiles
    /\ ~TableFiles
    /\ "TEC" \in data.names
    /\ "TEC" \notin DOMAIN meta
    /\ "tec" \in DOMAIN meta

\* load has returned a table of a file with an upper-case header, with
\* lower-case columns
C19_UpperCaseHeader ==
    /\ Returned
    /\ FlatLoad
    /\ Len(fdata) = 1
    /\ "YEAR" \in Range(file_data.header)
    /\ "year" \in data.names
    /\ "year" \in DOMAIN meta

----------------------------------------------------------------------------
(* C25 *)

\* the experiments of the archive overlap the days from start to stop, as
\* those that getExperiments returns for the dates of download do
ArchiveInRange ==
    \A i \in DOMAIN request.archive :
        /\ request.archive[i].endday >= Min(Range(request.date_array.val)) \div 172800
        /\ request.archive[i].startday <= Max(Range(request.date_array.val)) \div 172800

\* the files that downloadFile was called for
Transferred ==
    {web_calls[i].args[1] :
        i \in {j \in DOMAIN web_calls : web_calls[j].fn = "downloadFile"}}

\* the experiment holds the remote file
Holds(e, name) ==
    \E i \in DOMAIN ExperimentFiles(e.id) : ExperimentFiles(e.id)[i].name = name

\* C25: download transfers files only from experiments whose date range
\* contains at least one date of date_array, so that an experiment that
\* lies in a gap between two requested dates is not downloaded.
C25_OnlyRequestedDates ==
    (request.fn = "download" /\ Transferred # {} /\ ArchiveInRange) =>
        \A name \in Transferred :
            \E i \in DOMAIN request.archive :
                /\ Holds(request.archive[i], name)
                /\ DateInRange(request.archive[i], request.date_array.val)

\* the same for dates without a gap: every day from the first to the last
\* is the day of a requested date
NoGap ==
    \A d \in (Min(Range(request.date_array.val)) \div 172800)
              ..(Max(Range(request.date_array.val)) \div 172800) :
        \E i \in DOMAIN request.date_array.val :
            request.date_array.val[i] \div 172800 = d

C25_ContiguousDates ==
    (request.fn = "download" /\ Transferred # {} /\ NoGap) =>
        C25_OnlyRequestedDates

\* download has transferred the files of an experiment of 1900-01-02 for
\* the dates 1900-01-01 and 1900-01-03
C25_ExperimentInGap ==
    /\ request.fn = "download"
    /\ request.date_array = GapDates
    /\ request.archive = <<Experiment(1, 1, 1)>>
    /\ web_pc = "done"
    /\ <<"exp1", "a", "hdf5">> \in Transferred

----------------------------------------------------------------------------
(* C26 *)

\* the step leaves the schema of the caller as it is, and the schema that
\* the files are recast with, once it is a dict, too
SchemaKept ==
    /\ caller_coords' = caller_coords
    /\ (xarray_coords.kind = "dict" /\ pc = "loop") =>
           xarray_coords' = xarray_coords

\* C26: load never changes the coordinate schema object that the caller
\* passed, and every file of a load is recast with the schema as it was
\* declared: no step removes a data variable from a group of the schema.
C26_SchemaUnchanged == [][SchemaKept]_vars

\* the same for the schemas that are lists
C26_ListUnchanged ==
    [][caller_coords.kind = "list" => caller_coords' = caller_coords]_vars

\* the dict of the caller has lost the variable zz of its group, and
\* load has returned
C26_VariableRemoved ==
    /\ Returned
    /\ caller_coords = DictCoords(<<Group(<<"time", "x">>, <<"a">>)>>)
    /\ HasWarning("unknown data variable(s)")

\* the second file has the column b, which the first file lacks, and b is
\* no variable of the schema any more
C26_LaterFileHasVariable ==
    /\ Len(fdata) = 1
    /\ FileRead
    /\ "b" \in Range(file_data.header)
    /\ caller_coords.kind = "dict"
    /\ \A i \in DOMAIN caller_coords.groups :
           "b" \notin Range(caller_coords.groups[i].vars)
    /\ \A i \in DOMAIN xarray_coords.groups :
           "b" \notin Range(xarray_coords.groups[i].vars)
    /\ HasWarning("unknown data variable(s)")

-----------------------------------------------------------------------------
(* madrigal_file_format_str(), general.py lines 224-488                     *)
(*                                                                         *)
(* A file format string is the sequence of its pieces: "*" is a wildcard,  *)
(* "{{" and "}}" open and close the field that pysat fills in, and the     *)
(* other pieces are literal text.  str.find() of a text of several pieces  *)
(* is FindSeq.  One run is a series of calls for one instrument code.      *)

MaxCalls == 2

\* str.find(sub): the position of the first occurrence, or -1
FindSeq(str, sub) ==
    LET at == {i \in 1..(Len(str) - Len(sub) + 1) :
                  SubSeq(str, i, i + Len(sub) - 1) = sub}
    IN  IF at = {} THEN -1 ELSE Min(at) - 1

\* str.split("*")
RECURSIVE SplitWildcard(_, _)
SplitWildcard(str, piece) ==
    IF str = <<>> THEN <<piece>>
    ELSE IF Head(str) = "*"
    THEN <<piece>> \o SplitWildcard(Tail(str), <<>>)
    ELSE SplitWildcard(Tail(str), Append(piece, Head(str)))

DateFields ==
    <<"{{", "year", "}}", "{{", "month", "}}", "{{", "day", "}}">>

VersionField == <<".", "{{", "version", "}}", ".">>

\* lines 259-451: some of the entries of format_str
format_str ==
    [c120 |-> <<"imf">> \o DateFields \o <<"g">> \o VersionField,
     c85 |-> <<"ALT">> \o DateFields \o <<"_", "*", ".">>,
     c8400 |-> <<"???">> \o DateFields \o <<"j", "*">> \o VersionField,
     c10 |-> <<"jro">> \o DateFields \o <<"*">> \o VersionField,
     c8000 |-> <<"*">> \o DateFields \o <<"*">> \o VersionField,
     c8001 |-> <<"????_?_??.gps_all.out", ".">>,
     c3000 |-> <<"utx", "*", ".">>,
     c70 |-> <<"MAD????_", "{", "year", "}}", "-", "{{", "month", "}}", "-",
               "{{", "day", "}}", "_", "*", ".">>]

\* the instrument codes of the calls: those of format_str and one that
\* format_str does not have
FormatCodes == DOMAIN format_str \cup {"c1"}

NotAvailable == "file format string not available for instrument code"

MultipleWildcards ==
    "file format string has multiple '*' wildcards, may not be parsable by pysat"

MissingDateInfo ==
    "file format string missing date info, may not be parsable by pysat"

BetweenConstraints ==
    "file format string has '*' between formatting constraints, may not be parsable by pysat"

\* lines 455-460
Fstr(inst_code) ==
    IF inst_code \notin DOMAIN format_str THEN <<"*", ".">>
    ELSE format_str[inst_code]

\* lines 471-474: the sections between wildcards that hold a field
NspecSec(fstr) ==
    LET parts == SplitWildcard(fstr, <<>>)
    IN  Cardinality({i \in DOMAIN parts :
                        /\ FindSeq(parts[i], <<"}}">>) > 0
                        /\ FindSeq(parts[i], <<"{{">>) >= 0})

\* lines 454-478: the message about the format string, "" when it is fine
FormatMsg(inst_code) ==
    LET fstr == Fstr(inst_code)
        num_wc == Len(SplitWildcard(fstr, <<>>))
        msg == IF inst_code \notin DOMAIN format_str THEN NotAvailable
               ELSE ""
    IN  IF num_wc >= 3 THEN MultipleWildcards
        ELSE IF FindSeq(fstr, <<"{{", "year">>) < 0 /\ fstr # <<"*", ".">>
        THEN MissingDateInfo
        ELSE IF num_wc > 1 /\ NspecSec(fstr) > 1 THEN BetweenConstraints
        ELSE msg

\* a variant that logs the warning whatever verbose is
ReportedLoudly(msg, strict, verbose) ==
    [raised |-> IF msg # "" /\ strict THEN msg ELSE "",
     warnings |-> IF msg # "" /\ ~strict THEN <<msg>> ELSE <<>>]

\* lines 480-484: what is raised and what is logged
Reported(msg, strict, verbose) ==
    [raised |-> IF msg # "" /\ strict THEN msg ELSE "",
     warnings |-> IF msg # "" /\ ~strict /\ verbose THEN <<msg>> ELSE <<>>]

\* one call, lines 453-488
FormatCall(inst_code, strict, verbose) ==
    LET rep == Reported(FormatMsg(inst_code), strict, verbose)
    IN  [strict |-> strict, verbose |-> verbose, raised |-> rep.raised,
         warnings |-> rep.warnings,
         fstr |-> IF rep.raised # "" THEN <<>>
                  ELSE Append(Fstr(inst_code), "{file_type}")]

FormatInit ==
    /\ LoadIdle
    /\ RemoteIdle
    /\ inst = Idle /\ los = Idle /\ lf = Idle
    /\ \E c \in FormatCodes : fmt = [pc |-> "calls", code |-> c, calls |-> <<>>]

MadrigalFileFormatStr ==
    /\ fmt.pc = "calls"
    /\ Len(fmt.calls) < MaxCalls
    /\ \E strict \in BOOLEAN, verbose \in BOOLEAN :
          fmt' = [fmt EXCEPT
                     !.calls = Append(@, FormatCall(fmt.code, strict, verbose))]
    /\ UNCHANGED <<load_vars, remote_vars, inst, los, lf>>

FormatNext == MadrigalFileFormatStr

FormatSpec == FormatInit /\ [][FormatNext]_vars

FormatCalls == IF fmt = Idle THEN {} ELSE Range(fmt.calls)

(* C21: madrigal_file_format_str with strict=True raises ValueError for    *)
(* exactly the instrument codes for which the call with strict=False and   *)
(* verbose=True logs a warning, and with the message of that warning; a    *)
(* call that is not strict logs at most one warning, logs none when        *)
(* verbose=False, raises nothing and returns a template that ends in       *)
(* '{file_type}'.                                                          *)
C21_StrictRaisesWhereVerboseWarns ==
    /\ \A s \in FormatCalls : \A v \in FormatCalls :
          (s.strict /\ ~v.strict /\ v.verbose) =>
             /\ (s.raised # "") <=> (v.warnings # <<>>)
             /\ s.raised # "" => v.warnings = <<s.raised>>
    /\ \A c \in FormatCalls :
          ~c.strict =>
             /\ Len(c.warnings) <= 1
             /\ ~c.verbose => c.warnings = <<>>
             /\ c.raised = ""
             /\ c.fstr # <<>> /\ c.fstr[Len(c.fstr)] = "{file_type}"

\* a strict call that raised and a verbose call that warned
C21_RaisedAndWarned ==
    \E s \in FormatCalls : \E v \in FormatCalls :
        /\ s.strict /\ s.raised = BetweenConstraints
        /\ ~v.strict /\ v.verbose /\ v.warnings = <<BetweenConstraints>>

\* a quiet call for a code that has a message
C21_QuietCall ==
    \E c \in FormatCalls :
        ~c.strict /\ ~c.verbose /\ FormatMsg(fmt.code) # "" /\ c.warnings = <<>>

-----------------------------------------------------------------------------
(* filter_data_single_date(), general.py lines 1267-1318                    *)
(*                                                                         *)
(* The Instrument is its index (the times of the samples it holds), its    *)
(* date, and whether it loads by date and pads.  Times are half seconds,   *)
(* as above.                                                               *)

MaxSamples == 3

\* the dates that are loaded
LoadDates == {Day, 2 * Day}

\* the times of samples around the second day: the last of the day
\* before, the first and the last of the day, the first of the day after
SampleTimes == {Day - 1, Day, 2 * Day - 1, 2 * Day, 3 * Day - 1}

\* a variant of the selection that keeps the first sample of the next day
DownselectNextDay(index, date) ==
    SelectSeq(index, LAMBDA t : t >= date /\ t <= date + Day)

\* lines 1312-1316: np.where() of the two comparisons, then inst[idx]
Downselect(index, date) ==
    SelectSeq(index, LAMBDA t : t >= date /\ t < date + Day)

FilterInit ==
    /\ LoadIdle
    /\ RemoteIdle
    /\ fmt = Idle /\ los = Idle /\ lf = Idle
    /\ \E idx \in SeqsUpTo(SampleTimes, MaxSamples), d \in LoadDates,
          by_date \in BOOLEAN, padded \in BOOLEAN :
          inst = [pc |-> "loaded", loaded |-> idx, index |-> idx, date |-> d,
                  load_by_date |-> by_date, pad |-> padded]

\* lines 1310-1318
FilterDataSingleDate ==
    /\ inst.pc = "loaded"
    /\ inst' = [inst EXCEPT
                   !.pc = "filtered",
                   !.index = IF inst.load_by_date /\ ~inst.pad
                             THEN Downselect(inst.index, inst.date)
                             ELSE @]
    /\ UNCHANGED <<load_vars, remote_vars, fmt, los, lf>>

FilterNext == FilterDataSingleDate

FilterSpec == FilterInit /\ [][FilterNext]_vars

Filtered == inst.pc = "filtered"

(* C22: after filter_data_single_date, an Instrument that loaded by date   *)
(* without padding holds exactly the loaded samples whose time t has       *)
(* date <= t < date + 1 day, each as often as loaded; one that loaded by   *)
(* file name, or that pads, holds what it held.                            *)
C22_SingleDate ==
    Filtered =>
        IF inst.load_by_date /\ ~inst.pad
        THEN /\ \A i \in DOMAIN inst.index :
                   inst.date <= inst.index[i] /\ inst.index[i] < inst.date + 172800
             /\ \A t \in SampleTimes :
                   (inst.date <= t /\ t < inst.date + 172800) =>
                       Count(inst.index, t) = Count(inst.loaded, t)
        ELSE inst.index = inst.loaded

\* samples at both ends of the day and next to them were loaded, and only
\* those of the day are left
C22_BothEnds ==
    /\ Filtered /\ inst.load_by_date /\ ~inst.pad /\ inst.date = 172800
    /\ inst.loaded = <<172799, 172800, 345600>>
    /\ inst.index = <<172800>>

\* samples of another day are kept when padding
C22_PaddedKept ==
    /\ Filtered /\ inst.load_by_date /\ inst.pad /\ inst.date = 172800
    /\ inst.index = <<172799, 172800, 345600>>

-----------------------------------------------------------------------------
(* load_los(), methods/gnss.py lines 156-266                                *)
(*                                                                         *)
(* An HDF5 file is the table of its rows, and a row is its receiver site   *)
(* (bytes) and its time (UNIX seconds); the other columns are not          *)
(* represented.  The disk maps the name of an HDF5 file to its table.      *)
(* The calls have gnss_network = 'all'.                                    *)

MaxLosFiles == 2

LosFileNames == {<<"a", "hdf5">>, <<"b", "hdf5">>, <<"c", "netCDF4">>}

\* np.bytes_()
Bytes(str) == <<"b", str>>

LosRow(site, time) == [gps_site |-> Bytes(site), ut1_unix |-> time]

LosTables ==
    {<<>>, <<LosRow("zzon", 0)>>, <<LosRow("abcd", 0)>>,
     <<LosRow("zzon", 1)>>, <<LosRow("zzon", 0), LosRow("abcd", 0)>>,
     <<LosRow("abcd", 0), LosRow("zzon", 1)>>}

\* los_method, and the los_value that goes with it: a site, or a time in
\* seconds since 1970
LosSelections ==
    {[los_method |-> m, los_value |-> "zzon"] :
        m \in {"site", "SITE", "bad_sel", "sites"}}
    \cup {[los_method |-> m, los_value |-> 0] : m \in {"time", "Time"}}

\* str.lower() of a selection method
MethodLower(m) ==
    IF m = "SITE" THEN "site" ELSE IF m = "Time" THEN "time" ELSE m

\* general.sort_file_formats(): the file names by file type, as load()
\* sorts them; no file is opened
sort_file_formats(names) == SortFileTypes(names)

\* a variant that selects by site when the method is not known
SelKeySite(los_method) ==
    IF MethodLower(los_method) = "time" THEN "ut1_unix" ELSE "gps_site"

\* lines 208-219: the selection key, "" where the code raises
SelKey(los_method) ==
    IF MethodLower(los_method) = "site" THEN "gps_site"
    ELSE IF MethodLower(los_method) = "time" THEN "ut1_unix"
    ELSE ""

\* lines 212 and 217: the value that the column is compared with
SelValue(sel_key, los_value) ==
    IF sel_key = "gps_site" THEN Bytes(los_value) ELSE los_value

\* lines 226-227 and 242: the rows that the mask selects
Selected(table, sel_key, value) ==
    SelectSeq(table, LAMBDA row : row[sel_key] = value)

\* lines 198-202: one warning for each other file type that has files
NonHDF5Warnings(types) ==
    Cardinality({t \in {"netCDF4", "simple"} : Len(types[t]) > 0})

LosInit ==
    /\ LoadIdle
    /\ RemoteIdle
    /\ fmt = Idle /\ inst = Idle /\ lf = Idle
    /\ \E names \in SeqsUpTo(LosFileNames, MaxLosFiles), sel \in LosSelections,
          disk \in [{n \in LosFileNames : FileTypeOf(n) = "hdf5"} -> LosTables] :
          los = [pc |-> "call", fnames |-> names,
                 los_method |-> sel.los_method, los_value |-> sel.los_value,
                 disk |-> disk, hdf5 |-> <<>>, sel_key |-> "",
                 opened |-> <<>>, data |-> <<>>, warnings |-> 0,
                 err |-> NoErr]

\* lines 196-222: up to the loop over the HDF5 files
LoadLos ==
    /\ los.pc = "call"
    /\ LET types == sort_file_formats(los.fnames)
           key == SelKey(los.los_method)
       IN  los' = [los EXCEPT
                      !.pc = IF key = "" THEN "raised" ELSE "files",
                      !.hdf5 = types.hdf5,
                      !.sel_key = key,
                      !.warnings = NonHDF5Warnings(types),
                      !.err = IF key = ""
                              THEN Error("ValueError",
                                         "unsupported selection type",
                                         <<los.los_method>>)
                              ELSE NoErr]
    /\ UNCHANGED <<load_vars, remote_vars, fmt, inst, lf>>

\* lines 224-249: one pass of the loop, with the break at its end
LoadLosFile ==
    /\ los.pc = "files"
    /\ Len(los.opened) < Len(los.hdf5)
    /\ LET fname == los.hdf5[Len(los.opened) + 1]
           rows == Selected(los.disk[fname], los.sel_key,
                            SelValue(los.sel_key, los.los_value))
           found == los.data \o rows
       IN  los' = [los EXCEPT
                      !.opened = Append(@, fname),
                      !.data = found,
                      !.pc = IF Len(found) > 0 THEN "frame" ELSE "files"]
    /\ UNCHANGED <<load_vars, remote_vars, fmt, inst, lf>>

\* lines 251-266: after the loop
LoadLosReturn ==
    /\ \/ los.pc = "frame"
       \/ los.pc = "files" /\ Len(los.opened) = Len(los.hdf5)
    /\ los' = [los EXCEPT !.pc = "returned"]
    /\ UNCHANGED <<load_vars, remote_vars, fmt, inst, lf>>

LosNext == LoadLos \/ LoadLosFile \/ LoadLosReturn

LosSpec == LosInit /\ [][LosNext]_vars

LosCalled == los # Idle /\ los.pc # "call"

(* C23: load_los raises ValueError 'unsupported selection type' for every  *)
(* los_method that is not 'site' or 'time' in any letter case, and has     *)
(* opened no data file when it does.                                       *)
C23_UnsupportedSelection ==
    (LosCalled /\ los.los_method \notin {"site", "SITE", "time", "Time"}) =>
        /\ los.pc = "raised"
        /\ los.err.type = "ValueError"
        /\ los.err.msg = "unsupported selection type"
        /\ los.opened = <<>>

\* a call with HDF5 files to open and a method that is not known
C23_BadSelRaised ==
    /\ LosCalled /\ los.los_method = "bad_sel" /\ los.pc = "raised"
    /\ Len(los.hdf5) = 2

\* upper case is accepted
C23_UpperCaseLoaded ==
    /\ LosCalled /\ los.los_method = "SITE" /\ los.pc = "returned"
    /\ los.data # <<>>

\* the rows of every HDF5 file of the call that the selection matches
RECURSIVE MatchingRows(_)
MatchingRows(names) ==
    IF names = <<>> THEN <<>>
    ELSE Selected(los.disk[Head(names)], los.sel_key,
                  SelValue(los.sel_key, los.los_value))
         \o MatchingRows(Tail(names))

LosReturned == los # Idle /\ los.pc = "returned"

(* C29: a load_los call that selects by 'site' returns the matching rows   *)
(* of every HDF5 file it was given; only a call that selects by 'time'     *)
(* stops after the first file that has matching rows.                      *)
C29_SiteFromEveryFile ==
    (LosReturned /\ los.los_method \in {"site", "SITE"}) =>
        /\ los.data = MatchingRows(los.hdf5)
        /\ los.opened = los.hdf5

\* a selection by time returns the rows of the first file that has some
C29_TimeFromFirstFile ==
    (LosReturned /\ los.los_method \in {"time", "Time"}) =>
        /\ los.data # <<>> => los.data = MatchingRows(<<los.opened[Len(los.opened)]>>)
        /\ los.data = <<>> => los.opened = los.hdf5

\* a selection by site returned while a file with rows of the site was
\* never opened
C29_SiteFileNotOpened ==
    /\ LosReturned /\ los.los_method = "site"
    /\ los.hdf5 = << <<"a", "hdf5">>, <<"b", "hdf5">> >>
    /\ los.opened = << <<"a", "hdf5">> >>
    /\ los.disk[<<"b", "hdf5">>] = <<LosRow("zzon", 1)>>
    /\ los.data = <<LosRow("zzon", 0)>>

-----------------------------------------------------------------------------
(* list_files(): general.py lines 1196-1264, dmsp_ivm.py lines 191-242,     *)
(* jro_isr.py lines 121-173                                                 *)
(*                                                                         *)
(* A template is the sequence of its pieces, as the file format strings    *)
(* above, and "{file_type}" is the placeholder.  supported_tags is the     *)
(* template of one inst_id and tag in each of three instrument modules:    *)
(* one whose list_files is general.list_files, dmsp_ivm and jro_isr.  A    *)
(* call is recorded with the patterns it hands to pysat's list_files,      *)
(* which decide the files it finds.  One run is a series of calls.         *)

MaxListCalls == 2

\* general.py line 23: the values of file_types
FileTypeValue ==
    [hdf5 |-> <<"hdf5">>, netCDF4 |-> <<"netCDF4">>,
     simple |-> <<"simple", "gz">>]

\* str.format(file_type=...): the placeholder is filled in and the
\* doubled braces become single ones
RECURSIVE Format(_, _)
Format(template, value) ==
    IF template = <<>> THEN <<>>
    ELSE LET piece == Head(template)
             out == IF piece = "{file_type}" THEN value
                    ELSE IF piece = "{{" THEN <<"{">>
                    ELSE IF piece = "}}" THEN <<"}">>
                    ELSE <<piece>>
         IN  out \o Format(Tail(template), value)

\* dmsp_ivm.py lines 84-89 and jro_isr.py lines 68-75: the templates of
\* the modules as imported
SupportedTags ==
    [general |-> <<"dst">> \o DateFields \o VersionField \o <<"{file_type}">>,
     dmsp |-> <<"dms_">> \o DateFields \o <<"_11">> \o VersionField
                 \o <<"{file_type}">>,
     jro |-> <<"jro">> \o DateFields \o VersionField \o <<"{file_type}">>]

\* the file_type arguments: a key of file_types, or None for general
ListFileTypes == [general |-> {"None", "hdf5", "netCDF4", "simple"},
                  dmsp |-> {"hdf5", "netCDF4", "simple"},
                  jro |-> {"hdf5", "netCDF4", "simple"}]

\* general.py lines 1246-1256: the patterns of one call, one for each
\* file type listed
GeneralPatterns(template, file_type) ==
    LET list_file_types == IF file_type = "None" THEN file_types
                           ELSE <<file_type>>
    IN  [i \in DOMAIN list_file_types |->
            IF FindSeq(template, <<"{file_type}">>) > 0
            THEN Format(template, FileTypeValue[list_file_types[i]])
            ELSE template]

\* dmsp_ivm.py lines 232-234, jro_isr.py lines 163-165: the template that
\* is stored in supported_tags
Formatted(template, file_type) ==
    IF FindSeq(template, <<"{file_type}">>) > 0
    THEN Format(template, <<file_type>>)
    ELSE template

ListCall(module, file_type, patterns) ==
    [module |-> module, file_type |-> file_type, patterns |-> patterns]

ListInit ==
    /\ LoadIdle
    /\ RemoteIdle
    /\ fmt = Idle /\ inst = Idle /\ los = Idle
    /\ lf = [pc |-> "calls", supported_tags |-> SupportedTags, calls |-> <<>>]

\* general.list_files: sup_tags is a new dict, supported_tags is only read
GeneralListFiles ==
    /\ lf.pc = "calls"
    /\ Len(lf.calls) < MaxListCalls
    /\ \E file_type \in ListFileTypes.general :
          lf' = [lf EXCEPT
                    !.calls = Append(@,
                        ListCall("general", file_type,
                                 GeneralPatterns(lf.supported_tags.general,
                                                 file_type)))]
    /\ UNCHANGED <<load_vars, remote_vars, fmt, inst, los>>

\* dmsp_ivm.list_files: the entry of the module's supported_tags is
\* assigned, and the dict is passed on to pysat
DmspListFiles ==
    /\ lf.pc = "calls"
    /\ Len(lf.calls) < MaxListCalls
    /\ \E file_type \in ListFileTypes.dmsp :
          LET new == Formatted(lf.supported_tags.dmsp, file_type)
          IN  lf' = [lf EXCEPT
                        !.supported_tags.dmsp = new,
                        !.calls = Append(@, ListCall("dmsp", file_type,
                                                     <<new>>))]
    /\ UNCHANGED <<load_vars, remote_vars, fmt, inst, los>>

\* jro_isr.list_files: as dmsp_ivm.list_files
JroListFiles ==
    /\ lf.pc = "calls"
    /\ Len(lf.calls) < MaxListCalls
    /\ \E file_type \in ListFileTypes.jro :
          LET new == Formatted(lf.supported_tags.jro, file_type)
          IN  lf' = [lf EXCEPT
                        !.supported_tags.jro = new,
                        !.calls = Append(@, ListCall("jro", file_type,
                                                     <<new>>))]
    /\ UNCHANGED <<load_vars, remote_vars, fmt, inst, los>>

ListNext == GeneralListFiles \/ DmspListFiles \/ JroListFiles

ListSpec == ListInit /\ [][ListNext]_vars

ListCalls == IF lf = Idle THEN {} ELSE Range(lf.calls)

\* the patterns of a call that no other call came before
FirstCallPatterns(module, file_type) ==
    IF module = "general"
    THEN GeneralPatterns(SupportedTags.general, file_type)
    ELSE <<Formatted(SupportedTags[module], file_type)>>

Placeholder(template) == template[Len(template)] = "{file_type}"

(* C27: the files that a list_files routine (general.list_files,           *)
(* dmsp_ivm.list_files, jro_isr.list_files) lists for a file type are      *)
(* those it lists when no call came before it, and the templates of        *)
(* supported_tags that the calls share stay as they were, with their       *)
(* '{file_type}' placeholder.                                              *)
C27_IndependentOfEarlierCalls ==
    /\ \A c \in ListCalls :
          c.patterns = FirstCallPatterns(c.module, c.file_type)
    /\ lf # Idle =>
          \A m \in DOMAIN SupportedTags :
              /\ lf.supported_tags[m] = SupportedTags[m]
              /\ Placeholder(lf.supported_tags[m])

\* the same of general.list_files alone
C27_GeneralIndependent ==
    /\ \A c \in ListCalls :
          c.module = "general" =>
              c.patterns = FirstCallPatterns(c.module, c.file_type)
    /\ lf # Idle => lf.supported_tags.general = SupportedTags.general

\* dmsp_ivm.list_files for netCDF4 after a call for hdf5 looks for hdf5
C27_StaleFileType ==
    /\ lf # Idle /\ Len(lf.calls) = 2
    /\ lf.calls[1].module = "dmsp" /\ lf.calls[1].file_type = "hdf5"
    /\ lf.calls[2].module = "dmsp" /\ lf.calls[2].file_type = "netCDF4"
    /\ lf.calls[2].patterns = lf.calls[1].patterns
    /\ ~Placeholder(lf.supported_tags.dmsp)

-----------------------------------------------------------------------------
(* The names that download() stores and the names that list_files seeks *)

\* the local names that downloadFile was called with
Stored ==
    {web_calls[i].args[2] :
        i \in {j \in DOMAIN web_calls : web_calls[j].fn = "downloadFile"}}

\* str.endswith()
EndsWith(name, ext) ==
    /\ Len(name) >= Len(ext)
    /\ SubSeq(name, Len(name) - Len(ext) + 1, Len(name)) = ext

(* C28: for each known file type T (hdf5, netCDF4, simple), the local file *)
(* name that download builds for a file of type T ends with the extension  *)
(* that general.list_files puts in place of '{file_type}' for T.           *)
C28_SameExtension ==
    \A name \in Stored :
        request.file_type \in DOMAIN FileTypeValue =>
            EndsWith(name, FileTypeValue[request.file_type])

\* the same for hdf5 and netCDF4 alone
C28_SameExtensionButSimple ==
    \A name \in Stored :
        request.file_type \in {"hdf5", "netCDF4"} =>
            EndsWith(name, FileTypeValue[request.file_type])

\* a file of type simple was stored under a name that ends in "simple"
C28_SimpleStored ==
    /\ request.fn = "download" /\ request.file_type = "simple"
    /\ <<"data_path", "a", "simple">> \in Stored

\* a file of type netCDF4 was stored
C28_NetCDF4Stored ==
    /\ request.fn = "download" /\ request.file_type = "netCDF4"
    /\ <<"data_path", "a", "netCDF4">> \in Stored

-----------------------------------------------------------------------------
(* clean(), ngdc_ae.py lines 124-156                                        *)
(*                                                                         *)
(* The Instrument is its data (the samples of each variable), its meta     *)
(* (the units and the fill value of each variable) and its clean level.    *)
(* A value is its text, and "nan" is NaN, which equals nothing.            *)

\* the variables, one in nT and one not
AeUnits == [ae |-> "nT", year |-> "y"]

\* line 216: the fill value that load() records in meta for a variable in
\* nT, the value of a missing sample
fill_val == "-32767"

\* a missing sample, a sample with the parameter error value, a good one
AeValues == {"-32767", "-32766", "5"}

\* the == of numpy: NaN is not equal to itself
NumEq(a, b) == a # "nan" /\ b # "nan" /\ a = b

\* Series[mask] = value
SetWhere(series, mask, value) ==
    [i \in DOMAIN series |-> IF mask[i] THEN value ELSE series[i]]

\* a variant in which line 143 assigns
CleanVariableAssigned(series, fill, clean_level, written) ==
    LET mask == [i \in DOMAIN series |-> NumEq(series[i], fill)]
        errors == [i \in DOMAIN series |-> NumEq(series[i], "-32766")]
        assigned == SetWhere(series, mask, "nan")
    IN  IF clean_level \in {"clean", "dusty"} /\ written
        THEN SetWhere(assigned, errors, "nan")
        ELSE assigned

\* lines 142-154 for one variable; written tells whether an assignment to
\* self[dvar][...] reaches the data of the Instrument, which pandas does
\* not promise of an assignment to a part of self[dvar]
CleanVariable(series, fill, clean_level, written) ==
    LET mask == [i \in DOMAIN series |-> NumEq(series[i], fill)]
        compared == [i \in DOMAIN series |->
                        mask[i] /\ NumEq(series[i], "nan")]
        errors == [i \in DOMAIN series |-> NumEq(series[i], "-32766")]
    IN  IF clean_level \in {"clean", "dusty"} /\ written
        THEN SetWhere(series, errors, "nan")
        ELSE series

CleanInit ==
    /\ LoadIdle
    /\ RemoteIdle
    /\ fmt = Idle /\ los = Idle /\ lf = Idle
    /\ \E d \in [DOMAIN AeUnits -> SeqsFromTo(AeValues, 1, MaxSamples - 1)],
          level \in {"clean", "dusty", "dirty"} :
          inst = [pc |-> "loaded", loaded |-> d, data |-> d,
                  fill_val |-> [v \in DOMAIN AeUnits |->
                                  IF AeUnits[v] = "nT" THEN fill_val
                                  ELSE "nan"],
                  recorded |-> fill_val,
                  clean_level |-> level, warnings |-> 0]

\* lines 137-156: the loop over the variables
Clean ==
    /\ inst.pc = "loaded"
    /\ \E written \in BOOLEAN :
          LET nT == {v \in DOMAIN AeUnits : AeUnits[v] = "nT"}
          IN  inst' = [inst EXCEPT
                  !.pc = "cleaned",
                  !.data = [v \in DOMAIN AeUnits |->
                              IF v \in nT
                              THEN CleanVariable(inst.data[v],
                                       inst.fill_val[v], inst.clean_level,
                                       written)
                              ELSE inst.data[v]],
                  !.fill_val = [v \in DOMAIN AeUnits |->
                                  IF v \in nT THEN "nan" ELSE inst.fill_val[v]],
                  !.warnings = IF inst.clean_level = "dusty" /\ nT # {}
                               THEN 1 ELSE 0]
    /\ UNCHANGED <<load_vars, remote_vars, fmt, los, lf>>

CleanNext == Clean

CleanSpec == CleanInit /\ [][CleanNext]_vars

Cleaned == inst # Idle /\ inst.pc = "cleaned"

(* C30: after ngdc_ae.clean at the levels 'clean', 'dusty' and 'dirty', no  *)
(* sample of a variable in nT equals the fill value that meta recorded     *)
(* before the call: those samples are NaN, and NaN is the fill value that  *)
(* meta records afterwards.                                                *)
C30_FillReplacedByNaN ==
    Cleaned =>
        \A v \in {"ae"} :
            /\ \A i \in DOMAIN inst.data[v] :
                  /\ inst.data[v][i] # inst.recorded
                  /\ inst.loaded[v][i] = inst.recorded =>
                        inst.data[v][i] = "nan"
            /\ inst.fill_val[v] = "nan"

\* meta records NaN as the fill value afterwards
C30_MetaRecordsNaN == Cleaned => inst.fill_val["ae"] = "nan"

\* at 'dirty' a sample still holds the old fill value while meta says NaN
C30_FillLeftAtDirty ==
    /\ Cleaned /\ inst.clean_level = "dirty"
    /\ inst.recorded = "-32767"
    /\ inst.data["ae"] = <<"-32767", "5">>
    /\ inst.fill_val["ae"] = "nan"

====
